---- MODULE Spec2Model ----
(***************************************************************************)
(* Model of api/index.py: the scoring functions calc_lab, attention_index  *)
(* and categorize, and the pipeline process_excel that validates the file  *)
(* name, reads the sheet, scores every row and builds the summary tables.  *)
(*                                                                         *)
(* Numbers are exact rationals [kind, n, d] (d > 0) with the IEEE specials *)
(* NaN and +-inf as separate kinds.  Cyrillic literals of the source are   *)
(* written in Latin transliteration (the parser accepts ASCII only):       *)
(* "Net" is the literal of line 103, "Itogo" the one of line 278.          *)
(***************************************************************************)
EXTENDS Integers, Sequences, FiniteSets

VARIABLES
    pc,                 \* position of the running call
    fn, args, ret,      \* a direct call of a scoring function: its name, arguments, result
    filename,           \* process_excel: the uploaded file's name
    content,            \* process_excel: the uploaded bytes (a sheet, or unreadable bytes)
    reads,              \* number of pd.read_excel calls made
    match,              \* the groups of the file name pattern
    df,                 \* the data frame
    level_tables, median_table, age_counts, towns_with_total, df_export,
    result              \* what process_excel returned or raised

fnvars == <<fn, args, ret>>
tables == <<level_tables, median_table, age_counts, towns_with_total, df_export>>
runvars == <<filename, content, reads, match, df, tables, result>>
vars == <<pc, fnvars, runvars>>

(***************************************************************************)
(* Bounds of the model.                                                    *)
(***************************************************************************)
MaxPad == 1
MaxDelta == 2
MaxErr == 7
MaxRings == 3

(***************************************************************************)
(* Floats.                                                                 *)
(***************************************************************************)
FNum(n, d) == [kind |-> "num", n |-> n, d |-> d]
FNaN == [kind |-> "nan", n |-> 0, d |-> 1]
FPInf == [kind |-> "pinf", n |-> 0, d |-> 1]
FNInf == [kind |-> "ninf", n |-> 0, d |-> 1]

FIsNum(x) == x.kind = "num"

RECURSIVE GCD(_, _)
GCD(a, b) == IF b = 0 THEN a ELSE GCD(b, a % b)

Abs(n) == IF n < 0 THEN 0 - n ELSE n

\* n / d in lowest terms (d > 0).
FRat(n, d) == LET g == GCD(Abs(n), d) IN FNum(n \div g, d \div g)

\* x < y, x <= y, x > y, x >= y of IEEE floats: every comparison with NaN is false.
FLt(x, y) ==
    CASE x.kind = "nan" \/ y.kind = "nan" -> FALSE
      [] x.kind = "pinf" -> FALSE
      [] y.kind = "ninf" -> FALSE
      [] x.kind = "ninf" -> TRUE
      [] y.kind = "pinf" -> TRUE
      [] OTHER -> x.n * y.d < y.n * x.d

FEq(x, y) ==
    CASE x.kind = "nan" \/ y.kind = "nan" -> FALSE
      [] x.kind = "num" /\ y.kind = "num" -> x.n * y.d = y.n * x.d
      [] OTHER -> x.kind = y.kind

FLe(x, y) == FLt(x, y) \/ FEq(x, y)
FGt(x, y) == FLt(y, x)
FGe(x, y) == FLe(y, x)

\* x * (n / d) for a positive constant n / d.
FScale(x, n, d) ==
    IF x.kind = "num" THEN FRat(x.n * n, x.d * d) ELSE x

FNeg(x) ==
    CASE x.kind = "num" -> FNum(0 - x.n, x.d)
      [] x.kind = "pinf" -> FNInf
      [] x.kind = "ninf" -> FPInf
      [] OTHER -> FNaN

FAdd(x, y) ==
    CASE x.kind = "nan" \/ y.kind = "nan" -> FNaN
      [] x.kind = "num" /\ y.kind = "num" -> FRat(x.n * y.d + y.n * x.d, x.d * y.d)
      [] x.kind = "num" -> y
      [] y.kind = "num" -> x
      [] x.kind = y.kind -> x
      [] OTHER -> FNaN

FSub(x, y) == FAdd(x, FNeg(y))

\* Rounding of n / d (d > 0) to the nearest integer, ties to the even one.
RoundHalfEven(n, d) ==
    LET q == n \div d
        r == n % d
    IN  IF 2 * r < d THEN q
        ELSE IF 2 * r > d THEN q + 1
        ELSE IF q % 2 = 0 THEN q ELSE q + 1

\* round(x, 2) and Series.round(2); NaN and the infinities round to themselves.
FRound2(x) ==
    IF x.kind = "num" THEN FRat(RoundHalfEven(100 * x.n, x.d), 100) ELSE x

RECURSIVE FSum(_)
FSum(xs) == IF xs = <<>> THEN FNum(0, 1) ELSE FAdd(Head(xs), FSum(Tail(xs)))

RECURSIVE SelectSeq2(_, _)
\* The subsequence of xs of the elements whose kind is not k.
SelectSeq2(xs, k) ==
    IF xs = <<>> THEN <<>>
    ELSE IF Head(xs).kind = k THEN SelectSeq2(Tail(xs), k)
    ELSE <<Head(xs)>> \o SelectSeq2(Tail(xs), k)

\* DataFrame.mean(axis=1): the mean of the values that are not NaN, NaN when none is.
MeanSkipNa(xs) ==
    LET ys == SelectSeq2(xs, "nan")
    IN  IF ys = <<>> THEN FNaN ELSE FScale(FSum(ys), 1, Len(ys))

(***************************************************************************)
(* Cells of the sheet: a number, a blank cell (NaN), a text, or None, the  *)
(* value Series.get gives for a column the sheet does not have.            *)
(***************************************************************************)
Num(n, d) == [k |-> "num", n |-> n, d |-> d, s |-> <<>>]
NaN == [k |-> "nan", n |-> 0, d |-> 1, s |-> <<>>]
None == [k |-> "none", n |-> 0, d |-> 1, s |-> <<>>]
Str(s) == [k |-> "str", n |-> 0, d |-> 1, s |-> s]

Whitespace == {" ", "\t"}
DigitChars == <<"0", "1", "2", "3", "4", "5", "6", "7", "8", "9">>
IsDigit(c) == \E i \in 1..10 : DigitChars[i] = c
DigitVal(c) == (CHOOSE i \in 1..10 : DigitChars[i] = c) - 1

RECURSIVE LStrip(_)
LStrip(s) == IF s # <<>> /\ Head(s) \in Whitespace THEN LStrip(Tail(s)) ELSE s

RECURSIVE RStrip(_)
RStrip(s) ==
    IF s # <<>> /\ s[Len(s)] \in Whitespace THEN RStrip(SubSeq(s, 1, Len(s) - 1)) ELSE s

\* str.strip()
Strip(s) == RStrip(LStrip(s))

AllDigits(s) == \A i \in 1..Len(s) : IsDigit(s[i])

RECURSIVE DigitsValue(_)
DigitsValue(s) ==
    IF s = <<>> THEN 0 ELSE DigitsValue(SubSeq(s, 1, Len(s) - 1)) * 10 + DigitVal(s[Len(s)])

RECURSIVE Pow10(_)
Pow10(k) == IF k = 0 THEN 1 ELSE 10 * Pow10(k - 1)

HasSign(s) == s # <<>> /\ Head(s) \in {"+", "-"}
Unsigned(s) == IF HasSign(s) THEN Tail(s) ELSE s
Negative(s) == HasSign(s) /\ Head(s) = "-"

Failed == [ok |-> FALSE, val |-> FNaN]
Parsed(x) == [ok |-> TRUE, val |-> x]

\* float(text): surrounding whitespace is ignored; a sign, then "nan", "inf",
\* "infinity" or a decimal numeral with an optional point.
FloatOfStr(s) ==
    LET t == Strip(s)
        u == Unsigned(t)
        dots == {i \in 1..Len(u) : u[i] = "."}
        p == IF dots = {} THEN Len(u) + 1 ELSE CHOOSE i \in dots : \A j \in dots : i <= j
        ip == SubSeq(u, 1, p - 1)
        fp == SubSeq(u, p + 1, Len(u))
        mag == FNum(DigitsValue(ip) * Pow10(Len(fp)) + DigitsValue(fp), Pow10(Len(fp)))
    IN  IF u = <<"n", "a", "n">> THEN Parsed(FNaN)
        ELSE IF u = <<"i", "n", "f">> \/ u = <<"i", "n", "f", "i", "n", "i", "t", "y">>
        THEN Parsed(IF Negative(t) THEN FNInf ELSE FPInf)
        ELSE IF AllDigits(ip) /\ AllDigits(fp) /\ Len(ip) + Len(fp) > 0
        THEN Parsed(IF Negative(t) THEN FNeg(mag) ELSE mag)
        ELSE Failed

\* float(x) of a cell; ok = FALSE when float() raises.
FloatOf(c) ==
    CASE c.k = "num" -> Parsed(FNum(c.n, c.d))
      [] c.k = "nan" -> Parsed(FNaN)
      [] c.k = "none" -> Failed
      [] OTHER -> FloatOfStr(c.s)

IntFailed == [ok |-> FALSE, val |-> 0]
IntParsed(i) == [ok |-> TRUE, val |-> i]

\* Truncation toward zero of n / d (d > 0).
Trunc(n, d) == IF n >= 0 THEN n \div d ELSE 0 - ((0 - n) \div d)

\* int(text): surrounding whitespace is ignored; a sign, then decimal digits only.
IntOfStr(s) ==
    LET t == Strip(s)
        u == Unsigned(t)
    IN  IF u # <<>> /\ AllDigits(u)
        THEN IntParsed(IF Negative(t) THEN 0 - DigitsValue(u) ELSE DigitsValue(u))
        ELSE IntFailed

\* int(x) of a cell; ok = FALSE when int() raises (NaN, None, a non-integer text).
IntOf(c) ==
    CASE c.k = "num" -> IntParsed(Trunc(c.n, c.d))
      [] c.k = "nan" -> IntFailed
      [] c.k = "none" -> IntFailed
      [] OTHER -> IntOfStr(c.s)

(***************************************************************************)
(* calc_lab                                                                *)
(***************************************************************************)
NET == <<"N", "e", "t">>

LabLimits == <<35, 35, 50, 65, 125>>

\* Line 105 with >= for >.
ExceedsLimit_ge(t, limit) == FGe(t, FNum(limit, 1))

\* The comparison of line 105 as it is written: time > limit.
ExceedsLimit(t, limit) == FGt(t, FNum(limit, 1))

calc_lab(time, errors, reached, limit) ==
    LET t == FloatOf(time)
        e == IF IntOf(errors).ok THEN IntOf(errors).val ELSE 0
    IN  IF ~t.ok THEN 0
        ELSE IF reached.k = "str" /\ Strip(reached.s) = NET THEN 0
        ELSE IF ExceedsLimit(t.val, limit) THEN 0
        ELSE IF e = 0 THEN 3
        ELSE IF e = 1 THEN 2
        ELSE IF 2 <= e /\ e <= 5 THEN 1
        ELSE 0

(***************************************************************************)
(* attention_index                                                         *)
(***************************************************************************)
attention_index(rings, errors) ==
    LET r == IF FloatOf(rings).ok THEN FloatOf(rings).val ELSE FNum(0, 1)
        e == IF FloatOf(errors).ok THEN FloatOf(errors).val ELSE FNum(0, 1)
    IN  FSub(FScale(r, 1, 2), FScale(FScale(e, 28, 10), 1, 60))

(***************************************************************************)
(* categorize                                                              *)
(***************************************************************************)
LevelBelow == "nizhe normativnogo"
LevelNorm == "normativnyj"
LevelAbove == "vyshe normativnogo"
NoLevel == "None"

\* pd.isna of a float or None.
IsNA(value) == value.kind \in {"nan", "none"}

FNone == [kind |-> "none", n |-> 0, d |-> 1]

\* Line 136 with < for <=.
UpToNorm_lt(value) == FLt(value, FNum(66, 100))

\* The upper threshold test of line 136 as it is written: value <= 0.66.
UpToNorm(value) == FLe(value, FNum(66, 100))

categorize(value) ==
    IF IsNA(value) THEN NoLevel
    ELSE IF FLt(value, FNum(33, 100)) THEN LevelBelow
    ELSE IF UpToNorm(value) THEN LevelNorm
    ELSE LevelAbove

(***************************************************************************)
(* Direct calls of the scoring functions: the arguments are drawn from     *)
(* bounded sets of cells, the call stores what the function returns.       *)
(***************************************************************************)
Spaces(n) == [i \in 1..n |-> " "]
Pad(l, core, r) == Spaces(l) \o core \o Spaces(r)

NumberTexts == {<<"1", "2">>, <<"3">>, <<"1", ".", "5">>, <<"a", "b">>, <<>>}
ReachedTexts == {NET, <<"D", "a">>, <<"n", "e", "t">>, <<"N", " ", "e", "t">>}

TimeCells(limit) ==
    {Num(limit * 10 + dl, 10) : dl \in (0 - MaxDelta)..MaxDelta}
    \cup {Num(0, 1), Num(10, 1), NaN, None}
    \cup {Str(Pad(p, t, p)) : p \in {0, MaxPad}, t \in NumberTexts \cup {<<"n", "a", "n">>}}

ErrorCells ==
    {Num(e, 1) : e \in (0 - 1)..MaxErr}
    \cup {Num(15, 10), Num(0 - 5, 10), NaN, None}
    \cup {Str(Pad(p, t, p)) : p \in {0, MaxPad}, t \in NumberTexts}

ReachedCells ==
    {NaN, None, Num(1, 1)}
    \cup {Str(Pad(l, t, r)) : l \in {0, MaxPad}, r \in {0, MaxPad}, t \in ReachedTexts}

RingCells ==
    {Num(r, 1) : r \in 0..MaxRings}
    \cup {Num(10, 1), Num(60, 1), Num(25, 10), NaN, None}
    \cup {Str(Pad(p, t, p)) : p \in {0, MaxPad}, t \in NumberTexts}

MaxCat == 100

CatValues ==
    {FNum(n, 100) : n \in (0 - 5)..MaxCat}
    \cup {FNum(325, 1000), FNum(335, 1000), FNum(655, 1000), FNum(665, 1000)}
    \cup {FNaN, FNone, FPInf, FNInf}

CatNear ==
    {FNum(n, 100) : n \in {0, 32, 33, 34, 65, 66, 67, 100}} \cup {FNaN, FNone}

LabCalls ==
    {[inst |-> i, time |-> t, errors |-> e, reached |-> r, limit |-> LabLimits[i]] :
        i \in 1..5, t \in UNION {TimeCells(LabLimits[j]) : j \in 1..5},
        e \in ErrorCells, r \in ReachedCells}

AttentionCalls == {[rings |-> r, errors |-> e] : r \in RingCells, e \in RingCells}

CategorizeCalls == {[value |-> v, other |-> w] : v \in CatValues, w \in CatNear}

\* The values the variables of process_excel hold while no run is under way.
NoRun ==
    /\ filename = <<>> /\ content = <<>> /\ reads = 0 /\ match = <<>> /\ df = <<>>
    /\ level_tables = <<>> /\ median_table = <<>> /\ age_counts = <<>>
    /\ towns_with_total = <<>> /\ df_export = <<>> /\ result = <<>>

InitFn ==
    /\ pc = "call"
    /\ ret = <<>>
    /\ NoRun
    /\ \/ fn = "calc_lab" /\ args \in LabCalls
       \/ fn = "attention_index" /\ args \in AttentionCalls
       \/ fn = "categorize" /\ args \in CategorizeCalls

CallCalcLab ==
    /\ pc = "call" /\ fn = "calc_lab"
    /\ ret' = calc_lab(args.time, args.errors, args.reached, args.limit)
    /\ pc' = "done"
    /\ UNCHANGED <<fn, args, runvars>>

CallAttentionIndex ==
    /\ pc = "call" /\ fn = "attention_index"
    /\ ret' = attention_index(args.rings, args.errors)
    /\ pc' = "done"
    /\ UNCHANGED <<fn, args, runvars>>

CallCategorize ==
    /\ pc = "call" /\ fn = "categorize"
    /\ ret' = [a |-> categorize(args.value), b |-> categorize(args.other)]
    /\ pc' = "done"
    /\ UNCHANGED <<fn, args, runvars>>

NextFn == CallCalcLab \/ CallAttentionIndex \/ CallCategorize

SpecFn == InitFn /\ [][NextFn]_vars

(***************************************************************************)
(* Claims about the scoring functions, checked under SpecFn.               *)
(***************************************************************************)
LabDone == pc = "done" /\ fn = "calc_lab"

\* What the claims call the inputs of a labyrinth call.
TimeIsFinite(c) == FloatOf(c).ok /\ FloatOf(c).val.kind = "num"
ReachedIsNet(c) == c.k = "str" /\ Strip(c.s) = NET
ErrorCount(c) == IF IntOf(c).ok THEN IntOf(c).val ELSE 0

ErrorScore(e) ==
    CASE e = 0 -> 3
      [] e = 1 -> 2
      [] e \in 2..5 -> 1
      [] OTHER -> 0

\* C1: for a time that parses as a finite number, calc_lab gives 0 when reached
\* is "Net" after trimming, else 0 when time > limit (time = limit is scored),
\* else 3, 2, 1 or 0 by the error count 0, 1, 2..5, other; the five instances
\* use the limits 35, 35, 50, 65, 125.
C1_LabScore ==
    LabDone /\ TimeIsFinite(args.time) =>
        LET t == FloatOf(args.time).val
            lim == CASE args.inst = 1 -> 35 [] args.inst = 2 -> 35 [] args.inst = 3 -> 50
                     [] args.inst = 4 -> 65 [] OTHER -> 125
        IN  /\ args.limit = lim
            /\ ret \in 0..3
            /\ ReachedIsNet(args.reached) => ret = 0
            /\ ~ReachedIsNet(args.reached) /\ t.n > lim * t.d => ret = 0
            /\ ~ReachedIsNet(args.reached) /\ t.n <= lim * t.d
                    => ret = ErrorScore(ErrorCount(args.errors))

\* A call whose time equals the limit, with no error and the goal reached, scored 3.
C1_Witness ==
    /\ LabDone
    /\ args.inst = 3 /\ args.time = Num(500, 10)
    /\ args.errors = Num(0, 1) /\ args.reached = Str(<<"D", "a">>)
    /\ ret = 3

TimeUnparseable(c) == c.k \in {"nan", "none"} \/ (c.k = "str" /\ ~FloatOf(c).ok)

\* C2: when the time is NaN (a blank cell), None or an unparseable text, the
\* labyrinth score is 0 whatever the error count and the reached flag are.
C2_UnparseableTimeScoresZero ==
    LabDone /\ TimeUnparseable(args.time) => ret = 0

CatDone == pc = "done" /\ fn = "categorize"
LevelRank(l) == CASE l = LevelBelow -> 1 [] l = LevelNorm -> 2 [] l = LevelAbove -> 3 [] OTHER -> 0

\* C3: categorize returns None for None/NaN and for every defined value exactly
\* one level: below for value < 0.33, normative for 0.33 <= value <= 0.66, above
\* for value > 0.66; the level is monotone non-decreasing in the value.
C3_Categorize ==
    CatDone =>
        LET v == args.value
            w == args.other
        IN  /\ v.kind \in {"nan", "none"} => ret.a = NoLevel
            /\ v.kind \notin {"nan", "none"} =>
                /\ ret.a \in {LevelBelow, LevelNorm, LevelAbove}
                /\ ret.a = LevelBelow <=> FLt(v, FNum(33, 100))
                /\ ret.a = LevelNorm <=> FGe(v, FNum(33, 100)) /\ FLe(v, FNum(66, 100))
                /\ ret.a = LevelAbove <=> FGt(v, FNum(66, 100))
            /\ v.kind \notin {"nan", "none"} /\ w.kind \notin {"nan", "none"} /\ FLe(v, w)
                    => LevelRank(ret.a) <= LevelRank(ret.b)

\* categorize(0.66) gave the normative level and categorize(0.67) the one above.
C3_Witness ==
    /\ CatDone
    /\ args.value = FNum(66, 100) /\ args.other = FNum(67, 100)
    /\ ret = [a |-> LevelNorm, b |-> LevelAbove]

AttDone == pc = "done" /\ fn = "attention_index"

\* The input of attention_index as the claim reads it: the number, or 0 for a
\* text that is no number, a blank cell or a missing one.
NumberOrZero(c) == IF TimeIsFinite(c) THEN FloatOf(c).val ELSE FNum(0, 1)

\* C4: attention_index(rings, errors) = 0.5*rings - (2.8*errors)/60 with every
\* input that is no number (text, blank/NaN, missing) replaced by 0; the result
\* is always a defined number.
C4_AttentionIndex ==
    AttDone =>
        LET r == NumberOrZero(args.rings)
            e == NumberOrZero(args.errors)
        IN  /\ ret.kind = "num"
            /\ ret.n * (r.d * e.d * 600) = (300 * r.n * e.d - 28 * e.n * r.d) * ret.d

\* The two worked examples of C4, which the code does satisfy.
C4_Examples ==
    AttDone =>
        /\ args.rings = Num(10, 1) /\ args.errors = Num(0, 1) => FEq(ret, FNum(5, 1))
        /\ args.rings = Num(0, 1) /\ args.errors = Num(60, 1) => FEq(ret, FNum(0 - 28, 10))

(***************************************************************************)
(* COLUMN_MAPPING.  A header of the sheet is either the long questionnaire *)
(* text that the mapping renames to the short identifier id (long = TRUE)  *)
(* or a short text taken as it is (long = FALSE, the text is id).          *)
(***************************************************************************)
LabTimeCol == <<"I5-1Vremya", "I5-2Vremya", "I5-3Vremya", "I5-4Vremya", "I5-5Vremya">>
LabErrCol == <<"I5-1Oshib", "I5-2Oshib", "I5-3Oshib", "I5-4Oshib", "I5-5Oshib">>
LabReachedCol == <<"I5-1Doshel", "I5-2Doshel", "I5-3Doshel", "I5-4Doshel", "I5-5Doshel">>
RingsCol == <<"I3-1Kolca", "I3-2Kolca", "I3-3Kolca", "I3-4Kolca", "I3-5Kolca">>
AttErrCol == <<"I3-1Oshib", "I3-2Oshib", "I3-3Oshib", "I3-4Oshib", "I3-5Oshib">>

Range(f) == {f[i] : i \in DOMAIN f}

MappedIds ==
    {"Vremya", "Organizaciya", "Kod", "Soglasie_obsled", "Soglasie_PD", "Vozrast",
     "Vozrast_vvod", "I1-1Sum", "I1-2Svyazn", "I1-2RechOform", "I1-2SamRass", "I2Sum",
     "I4Sum", "V1", "V2", "V3_foto", "EmocIdent", "Planir", "Sotrud", "Reflek", "Primech"}
    \cup Range(LabTimeCol) \cup Range(LabErrCol) \cup Range(LabReachedCol)
    \cup Range(RingsCol) \cup Range(AttErrCol)

Long(id) == [long |-> TRUE, id |-> id]
Short(text) == [long |-> FALSE, id |-> text]

COLUMN_MAPPING ==
    [h \in {Long(id) : id \in MappedIds} \cup {Short("ID")} |-> h.id]

\* The name df.rename(columns=COLUMN_MAPPING) gives a header: the mapped name for a
\* key of the mapping, the header's own text for any other header.
Renamed(h) == IF h \in DOMAIN COLUMN_MAPPING THEN COLUMN_MAPPING[h] ELSE h.id

AllHeaders == DOMAIN COLUMN_MAPPING

(***************************************************************************)
(* The file name pattern of line 186: re.match(r'(\d+)-(\d+)', filename).  *)
(***************************************************************************)
RECURSIVE DigitRun(_, _)
\* Length of the longest run of digits of s that starts at position i.
DigitRun(s, i) ==
    IF i <= Len(s) /\ IsDigit(s[i]) THEN 1 + DigitRun(s, i + 1) ELSE 0

NoMatch == [ok |-> FALSE, g1 |-> <<>>, g2 |-> <<>>]

\* \d+ is greedy and a digit can never stand for the hyphen, so nothing is gained by
\* giving digits back: the first group is the whole leading run.
MatchName(s) ==
    LET a == DigitRun(s, 1)
        b == DigitRun(s, a + 2)
    IN  IF a = 0 \/ a + 1 > Len(s) THEN NoMatch
        ELSE IF s[a + 1] # "-" \/ b = 0 THEN NoMatch
        ELSE [ok |-> TRUE, g1 |-> SubSeq(s, 1, a), g2 |-> SubSeq(s, a + 2, a + 1 + b)]

ANALITIKA == <<"A", "n", "a", "l", "i", "t", "i", "k", "a", "_">>
XLSX == <<".", "x", "l", "s", "x">>

\* Line 389 with the two groups in each other's place.
OutputFilename_swapped(ploshchadka, diagnostika) ==
    ANALITIKA \o diagnostika \o <<"-">> \o ploshchadka \o XLSX

\* Line 389.
OutputFilename(ploshchadka, diagnostika) ==
    ANALITIKA \o ploshchadka \o <<"-">> \o diagnostika \o XLSX

(***************************************************************************)
(* Errors process_excel raises.                                            *)
(***************************************************************************)
Raised(kind) == [raised |-> TRUE, error |-> kind, bytes |-> <<>>, name |-> <<>>]
Returned(bytes, name) == [raised |-> FALSE, error |-> "", bytes |-> bytes, name |-> name]

FilenameError == Raised("ValueError: filename format")
CodecError == Raised("read_excel: unreadable")
KeyError == Raised("KeyError")
TypeError == Raised("TypeError")

(***************************************************************************)
(* Data frames: a set of column names and a sequence of rows, each row a   *)
(* function from the column names to values.  No two headers of a sheet    *)
(* are renamed to the same name.                                           *)
(***************************************************************************)
\* Series.get: None for a label the row does not have.
Get(x, c) == IF c \in DOMAIN x THEN x[c] ELSE None

NRows(d) == Len(d.rows)

\* The frame with the columns of F(x) set in every row x (df[c] = ... for each c).
AddCols(d, names, F(_)) ==
    [columns |-> d.columns \cup names,
     rows |-> [i \in 1..NRows(d) |->
                 [k \in DOMAIN d.rows[i] \cup names |->
                     IF k \in names THEN F(d.rows[i])[k] ELSE d.rows[i][k]]]]

\* The float a numeric cell holds in a column of numbers.
CellFloat(c) == IF c.k = "num" THEN FRat(c.n, c.d) ELSE FNaN

\* What df[c] followed by arithmetic raises: KeyError for a column the frame does
\* not have, TypeError for a column that holds a text; "" when it raises nothing.
ColumnError(d, c) ==
    IF c \notin d.columns THEN "KeyError"
    ELSE IF \E i \in 1..NRows(d) : d.rows[i][c].k = "str" THEN "TypeError"
    ELSE ""

RECURSIVE FirstError(_, _)
\* The error of the first column of cs, in the order they are read, that raises.
FirstError(d, cs) ==
    IF cs = <<>> THEN ""
    ELSE IF ColumnError(d, Head(cs)) # "" THEN ColumnError(d, Head(cs))
    ELSE FirstError(d, Tail(cs))

\* Lines 198-204, one row.
LabCol == <<"P1", "P2", "P3", "P4", "P5">>
LabScore(x, i) == calc_lab(Get(x, LabTimeCol[i]), Get(x, LabErrCol[i]),
                           Get(x, LabReachedCol[i]), LabLimits[i])
\* Line 204 with the mean divided by 2 for 3.
AnalitSint_half(x) ==
    FRound2(FScale(FRat(LabScore(x, 1) + LabScore(x, 2) + LabScore(x, 3)
                        + LabScore(x, 4) + LabScore(x, 5), 5), 1, 2))

\* Line 204.
AnalitSint(x) ==
    FRound2(FScale(FRat(LabScore(x, 1) + LabScore(x, 2) + LabScore(x, 3)
                        + LabScore(x, 4) + LabScore(x, 5), 5), 1, 3))

\* Lines 207-213, one row.
VnimCol == <<"Vnim1", "Vnim2", "Vnim3", "Vnim4", "Vnim5">>
Vnim(x, i) == attention_index(Get(x, RingsCol[i]), Get(x, AttErrCol[i]))
SredVnim(x) == MeanSkipNa([i \in 1..5 |-> Vnim(x, i)])
KachestvoVnimaniya(v) ==
    IF FGe(v, FNum(6, 1)) THEN FNum(1, 1) ELSE FRound2(FScale(v, 1, 6))

\* Lines 216-218: a criterion score over its maximum 5.
Criterion(x, c) == FRound2(FScale(CellFloat(x[c]), 1, 5))

\* Lines 221-233, one row whose criterion columns are set.
GotovnUD(x) ==
    FRound2(FScale(FAdd(FScale(CellFloat(x["I1-1Sum"]), 1, 18),
                        FScale(FAdd(FAdd(x["Svyazn"], x["RechOform"]), x["SamostRass"]), 1, 3)),
                   1, 2))
LogObobshchenie(x) == FRound2(FScale(CellFloat(x["I2Sum"]), 1, 16))
Percepciya(x) == FRound2(FScale(CellFloat(x["I4Sum"]), 1, 11))
Voobrazhenie(x) ==
    FRound2(FScale(FAdd(FScale(CellFloat(x["V1"]), 1, 3), FScale(CellFloat(x["V2"]), 1, 3)),
                   1, 2))
IdentifEmocij(x) == FRound2(FScale(CellFloat(x["EmocIdent"]), 1, 8))
Observation(x, c) == FRound2(FScale(CellFloat(x[c]), 1, 4))
KognitivnoeRazvitie(x) ==
    FRound2(FScale(FAdd(FAdd(FAdd(FAdd(GotovnUD(x), x["Kachestvo vnimaniya"]),
                                  x["Analit-Sint"]), LogObobshchenie(x)), Percepciya(x)),
                   1, 5))
EmSocIntellekt(x) ==
    FRound2(FScale(FAdd(IdentifEmocij(x),
                        FScale(FAdd(FAdd(Observation(x, "Planir"), Observation(x, "Sotrud")),
                                    Observation(x, "Reflek")), 1, 3)),
                   1, 2))

Metrics == <<"Kognitivnoe razvitie", "Voobrazhenie_itog", "EmSocIntellekt">>
LevelCol ==
    [m \in Range(Metrics) |->
        CASE m = "Kognitivnoe razvitie" -> "Kognitivnoe razvitie_uroven"
          [] m = "Voobrazhenie_itog" -> "Voobrazhenie_itog_uroven"
          [] OTHER -> "EmSocIntellekt_uroven"]

(***************************************************************************)
(* Texts: str(), code point order, split, startswith.                      *)
(***************************************************************************)
Chars ==
    <<"\t", " ", "(", ")", "+", "-", ".", "0", "1", "2", "3", "4", "5", "6", "7", "8", "9",
      ";", "A", "B", "C", "D", "E", "F", "G", "H", "I", "J", "K", "L", "M", "N", "O", "P",
      "Q", "R", "S", "T", "U", "V", "W", "X", "Y", "Z", "_", "a", "b", "c", "d", "e", "f",
      "g", "h", "i", "j", "k", "l", "m", "n", "o", "p", "q", "r", "s", "t", "u", "v", "w",
      "x", "y", "z">>
Ord(c) == CHOOSE i \in 1..Len(Chars) : Chars[i] = c

RECURSIVE StrLess(_, _)
\* s < t of two texts.
StrLess(s, t) ==
    IF t = <<>> THEN FALSE
    ELSE IF s = <<>> THEN TRUE
    ELSE IF Head(s) # Head(t) THEN Ord(Head(s)) < Ord(Head(t))
    ELSE StrLess(Tail(s), Tail(t))

StartsWith(s, prefix) == Len(s) >= Len(prefix) /\ SubSeq(s, 1, Len(prefix)) = prefix

RECURSIVE DigitsOf(_)
DigitsOf(n) == IF n < 10 THEN <<DigitChars[n + 1]>> ELSE DigitsOf(n \div 10) \o <<DigitChars[(n % 10) + 1]>>

\* str(x) of a cell; a number is an integer or has one decimal.
StrOf(c) ==
    CASE c.k = "str" -> c.s
      [] c.k = "nan" -> <<"n", "a", "n">>
      [] c.k = "none" -> <<"N", "o", "n", "e">>
      [] OTHER ->
            (IF c.n < 0 THEN <<"-">> ELSE <<>>)
            \o DigitsOf(Abs(c.n) \div c.d)
            \o (IF c.d = 1 THEN <<>> ELSE <<".">> \o DigitsOf(Abs(c.n) % c.d))

\* Position of the first element of s at or after i that is in cs; Len(s) + 1 if none.
RECURSIVE Find(_, _, _)
Find(s, cs, i) ==
    IF i > Len(s) THEN Len(s) + 1
    ELSE IF s[i] \in cs THEN i
    ELSE Find(s, cs, i + 1)

\* s.split(sep)[0]
BeforeFirst(s, sep) == SubSeq(s, 1, Find(s, {sep}, 1) - 1)

\* s.split(): the first token, <<>> when s holds whitespace only.
FirstToken(s) == LET t == LStrip(s) IN SubSeq(t, 1, Find(t, Whitespace, 1) - 1)

(***************************************************************************)
(* extract_age, extract_town, sort_key_town                                *)
(***************************************************************************)
\* Lines 263-267 with 0 for 999: a label without a number would sort first.
extract_age_zero(text) ==
    LET token == FirstToken(BeforeFirst(StrOf(text), "-"))
    IN  IF token # <<>> /\ IntOfStr(token).ok THEN IntOfStr(token).val ELSE 0

\* Lines 263-267: 999 when there is no token (IndexError) or int() raises.
extract_age(text) ==
    LET token == FirstToken(BeforeFirst(StrOf(text), "-"))
    IN  IF token # <<>> /\ IntOfStr(token).ok THEN IntOfStr(token).val ELSE 999

\* Lines 142-147 without the strip() of line 146.
extract_town_nostrip(org_name) ==
    LET s == StrOf(org_name)
        i == Find(s, {"("}, 1)
        j == Find(s, {")"}, i + 1)
    IN  IF j > Len(s) THEN None
        ELSE Str(BeforeFirst(SubSeq(s, i + 1, j - 1), ";"))

\* Lines 142-147: re.search(r"\((.*?)\)") finds the first "(" and the first ")" after it.
extract_town(org_name) ==
    LET s == StrOf(org_name)
        i == Find(s, {"("}, 1)
        j == Find(s, {")"}, i + 1)
    IN  IF j > Len(s) THEN None
        ELSE Str(Strip(BeforeFirst(SubSeq(s, i + 1, j - 1), ";")))

MOSKVA == <<"g", ".", "M", "o", "s", "k", "v", "a">>

\* Lines 150-167.
sort_key_town(name) ==
    IF name.k \in {"nan", "none"} THEN <<999, <<>>>>
    ELSE LET n == Strip(StrOf(name))
         IN  IF n = MOSKVA THEN <<0, n>>
             ELSE IF StartsWith(n, <<"g", ".">>) THEN <<1, n>>
             ELSE IF \/ StartsWith(n, <<"r", ".", "p", ".">>)
                     \/ StartsWith(n, <<"p", ".">>)
                     \/ StartsWith(n, <<"p", "o", "s", ".">>) THEN <<2, n>>
             ELSE IF StartsWith(n, <<"s", ".">>) THEN <<3, n>>
             ELSE IF StartsWith(n, <<"d", ".">>) THEN <<4, n>>
             ELSE IF StartsWith(n, <<"s", "t", ".">>) THEN <<5, n>>
             ELSE <<6, n>>

\* The order of the names alone, the rank left out.
KeyLess_nameOnly(a, b) == StrLess(a[2], b[2])

\* Order of the tuples sort_key_town returns.
KeyLess(a, b) == a[1] < b[1] \/ (a[1] = b[1] /\ StrLess(a[2], b[2]))

(***************************************************************************)
(* The summary tables of lines 240-281.                                    *)
(***************************************************************************)
Perms(S) ==
    {f \in [1..Cardinality(S) -> S] : \A i, j \in 1..Cardinality(S) : i # j => f[i] # f[j]}

RECURSIVE SumOver(_, _)
\* The sum of the counts n of the rows of sequence t from position i on.
SumOver(t, i) == IF i > Len(t) THEN 0 ELSE t[i].n + SumOver(t, i + 1)

\* value_counts that would count the rows without a level under the level v.
ValueCounts_na(d, c, v) ==
    Cardinality({i \in 1..NRows(d) : d.rows[i][c] = v \/ d.rows[i][c] = NoLevel})

\* Series.value_counts: the number of rows whose column c holds v.
ValueCounts(d, c, v) == Cardinality({i \in 1..NRows(d) : d.rows[i][c] = v})

\* Line 241 with the rows that have a level of the first metric for len(df).
LevelTotal_defined(d) ==
    Cardinality({i \in 1..NRows(d) : d.rows[i][LevelCol[Metrics[1]]] # NoLevel})

\* Line 241: total = len(df).
LevelTotal(d) == NRows(d)

\* n / total of an integer column by an integer: 0 / 0 is NaN, n / 0 is inf.
Share(n, total) ==
    IF total # 0 THEN FRat(n, total) ELSE IF n = 0 THEN FNaN ELSE FPInf

LevelOrder == <<LevelBelow, LevelNorm, LevelAbove>>

\* Lines 243-247 for one metric.
LevelTable(d, metr) ==
    [i \in 1..3 |->
        [Uroven |-> LevelOrder[i],
         Kolichestvo |-> ValueCounts(d, LevelCol[metr], LevelOrder[i]),
         Dolya |-> Share(ValueCounts(d, LevelCol[metr], LevelOrder[i]), LevelTotal(d))]]

RECURSIVE InsertSorted(_, _)
InsertSorted(x, ys) ==
    IF ys = <<>> THEN <<x>>
    ELSE IF FLe(x, Head(ys)) THEN <<x>> \o ys
    ELSE <<Head(ys)>> \o InsertSorted(x, Tail(ys))

RECURSIVE SortFloats(_)
SortFloats(xs) == IF xs = <<>> THEN <<>> ELSE InsertSorted(Head(xs), SortFloats(Tail(xs)))

\* Series.median: of the values that are not NaN, NaN when there is none.
Median(xs) ==
    LET ys == SortFloats(SelectSeq2(xs, "nan"))
        n == Len(ys)
    IN  IF n = 0 THEN FNaN
        ELSE IF n % 2 = 1 THEN ys[(n + 1) \div 2]
        ELSE FScale(FAdd(ys[n \div 2], ys[(n \div 2) + 1]), 1, 2)

cols_for_median ==
    <<"Kognitivnoe razvitie", "Gotovn_UD", "Log_obobshchenie", "Percepciya",
      "Kachestvo vnimaniya", "Analit-Sint", "Svyazn", "RechOform", "SamostRass",
      "Voobrazhenie", "EmSocIntellekt", "Identif_emocij",
      "Planirovanie", "Sotrudnichestvo", "Refleksiya">>

MedianTable(d) ==
    [i \in 1..Len(cols_for_median) |->
        [Pokazatel |-> cols_for_median[i],
         Mediana |-> FRound2(Median([r \in 1..NRows(d) |-> d.rows[r][cols_for_median[i]]]))]]

\* Line 261 with the number of rows for the sum of the counts.
AgeTotal_len(d) == NRows(d)

\* Line 261: the sum of the counts, the number of rows whose label is not blank.
AgeTotal(d) == Cardinality({i \in 1..NRows(d) : d.rows[i]["Vozrast"].k # "nan"})

\* Lines 259-261: one row per label that is not blank (value_counts drops NaN).
AgeRows(d) ==
    {[gruppa |-> l, n |-> ValueCounts(d, "Vozrast", l),
      pct |-> Share(ValueCounts(d, "Vozrast", l), AgeTotal(d))] :
        l \in {d.rows[i]["Vozrast"] : i \in 1..NRows(d)} \ {NaN}}

\* Lines 268-269: the rows in an order of non-decreasing age_sort; the order of rows
\* of equal age_sort is whatever the sort leaves.
AgeSorted(d) ==
    {t \in Perms(AgeRows(d)) :
        \A i, j \in 1..Len(t) : i < j => extract_age(t[i].gruppa) <= extract_age(t[j].gruppa)}

\* Lines 272-275: per town that is defined, the number of distinct organisations.
TownRows(d) ==
    {r \in {[punkt |-> p,
             n |-> Cardinality({d.rows[i]["Organizaciya"] : i \in
                      {k \in 1..NRows(d) : /\ d.rows[k]["Naselyonnyj punkt"] = p
                                            /\ d.rows[k]["Organizaciya"].k # "nan"}})] :
            p \in {d.rows[i]["Naselyonnyj punkt"] : i \in 1..NRows(d)} \ {None}} : r.n > 0}

RECURSIVE SortTowns(_)
\* Line 276: the rows by increasing sort_key_town.
SortTowns(S) ==
    IF S = {} THEN <<>>
    ELSE LET m == CHOOSE x \in S : \A y \in S \ {x} :
                      KeyLess(sort_key_town(x.punkt), sort_key_town(y.punkt))
         IN  <<m>> \o SortTowns(S \ {m})

ITOGO == Str(<<"I", "t", "o", "g", "o">>)

\* Line 279 with the number of town rows for the sum of their counts.
TotalCount_len(towns) == Len(towns)

\* Line 279: the sum of the counts of the town rows.
TotalCount(towns) == SumOver(towns, 1)

\* Lines 277-281.
WithTotal(towns) == towns \o <<[punkt |-> ITOGO, n |-> TotalCount(towns)]>>

ExportCols ==
    <<"Kod", "Vozrast", "Svyazn", "RechOform", "SamostRass", "Analit-Sint",
      "Kachestvo vnimaniya", "Gotovn_UD", "Log_obobshchenie", "Percepciya", "Aktivn_vniman",
      "Analit_sint", "Voobrazhenie", "Identif_emocij", "Planirovanie", "Sotrudnichestvo",
      "Refleksiya", "Kognitivnoe razvitie", "EmSocIntellekt", "Kognitivnoe razvitie_uroven",
      "Voobrazhenie_itog_uroven", "EmSocIntellekt_uroven">>

(***************************************************************************)
(* The inputs of process_excel: file names over a small alphabet and the   *)
(* two names the documentation gives; sheets of up to MaxRows rows, each   *)
(* row the base child with one of its parts varied (the scores, the age    *)
(* group label or the organisation), sheets that lack one column, and      *)
(* bytes that are no spreadsheet.                                          *)
(***************************************************************************)
MaxRows == 2
MaxNameLen == 4

NameChars == {"0", "7", "-", "x"}
RAZVITIE == <<"5", "-", "3", "1", "-", "R", "a", "z", "v", "i", "t", "i", "e", ".", "x", "l", "s", "x">>
BAD == <<"b", "a", "d", ".", "x", "l", "s", "x">>

SeqsUpTo(S, n) == UNION {[1..k -> S] : k \in 0..n}

Profiles == {"norm", "above", "below", "blankV1", "blank", "textLab", "textCrit"}

AB == Str(<<"a", "b">>)
DA == Str(<<"D", "a">>)

ScoreCols ==
    {"I1-1Sum", "I1-2Svyazn", "I1-2RechOform", "I1-2SamRass", "I2Sum", "I4Sum", "V1", "V2",
     "EmocIdent", "Planir", "Sotrud", "Reflek"}
    \cup Range(LabTimeCol) \cup Range(LabErrCol) \cup Range(LabReachedCol)
    \cup Range(RingsCol) \cup Range(AttErrCol)

\* The cell of column c of a child whose answers are all at the top (3), in the
\* middle (2) or at the bottom (1) of the scales.
GradeCell(g, c) ==
    CASE c \in Range(LabTimeCol) -> Num(10, 1)
      [] c \in Range(LabErrCol) -> Num(IF g = 3 THEN 0 ELSE IF g = 2 THEN 3 ELSE 9, 1)
      [] c \in Range(LabReachedCol) -> IF g = 1 THEN Str(NET) ELSE DA
      [] c \in Range(RingsCol) -> Num(IF g = 3 THEN 14 ELSE IF g = 2 THEN 6 ELSE 0, 1)
      [] c \in Range(AttErrCol) -> Num(IF g = 1 THEN 3 ELSE 0, 1)
      [] c \in {"I1-2Svyazn", "I1-2RechOform", "I1-2SamRass"} ->
            Num(IF g = 3 THEN 5 ELSE IF g = 2 THEN 3 ELSE 0, 1)
      [] c = "I1-1Sum" -> Num(IF g = 3 THEN 18 ELSE IF g = 2 THEN 9 ELSE 1, 1)
      [] c = "I2Sum" -> Num(IF g = 3 THEN 16 ELSE IF g = 2 THEN 8 ELSE 1, 1)
      [] c = "I4Sum" -> Num(IF g = 3 THEN 11 ELSE IF g = 2 THEN 5 ELSE 1, 1)
      [] c = "V1" -> Num(IF g = 3 THEN 3 ELSE IF g = 2 THEN 1 ELSE 0, 1)
      [] c = "V2" -> Num(IF g = 3 THEN 3 ELSE IF g = 2 THEN 2 ELSE 1, 1)
      [] c = "EmocIdent" -> Num(IF g = 3 THEN 8 ELSE IF g = 2 THEN 4 ELSE 1, 1)
      [] c \in {"Planir", "Sotrud", "Reflek"} -> Num(IF g = 3 THEN 4 ELSE IF g = 2 THEN 2 ELSE 0, 1)
      [] c = "Kod" -> Num(101, 1)
      [] c = "ID" -> Num(1, 1)
      [] OTHER -> NaN

ProfileCell(p, c) ==
    CASE p = "blank" /\ c \in ScoreCols -> NaN
      [] p = "blankV1" /\ c = "V1" -> NaN
      [] p = "textLab" /\ c \in Range(LabTimeCol) \cup Range(RingsCol) -> AB
      [] p = "textCrit" /\ c = "I1-2Svyazn" -> AB
      [] OTHER -> GradeCell(IF p = "above" THEN 3 ELSE IF p = "below" THEN 1 ELSE 2, c)

AgeLabels == {Str(<<"5", "-", "6", " ", "l", "e", "t">>), Str(<<"6", "-", "7", " ", "l", "e", "t">>), Str(<<"s", "t", "a", "r", "s", "h", "e", " ", "7">>),
     Str(<<"1", "0", "0", "0", " ", "l", "e", "t">>), NaN}
Orgs == {Str(<<"D", "S", "1", " ", "(", "g", ".", "M", "o", "s", "k", "v", "a", ")">>), Str(<<"D", "S", "2", " ", "(", "g", ".", "M", "o", "s", "k", "v", "a", ")">>), Str(<<"S", "h", " ", "(", "s", ".", "B", ";", " ", "r", "-", "n", " ", "K", ")">>), Str(<<"D", "S", "3">>), Str(<<"K", " ", "(", "g", ".", "A", ")">>),
     Str(<<"(", "p", ".", "V", ")">>), Str(<<"(", "d", ".", "G", ")">>),
     Str(<<"(", "s", "t", ".", "D", ")">>), Str(<<"(", " ", "Z", " ", ")", "(", "g", ".", "A", ")">>),
     Str(<<"(", "s", ".", "A", ")">>), NaN}
BaseAge == Str(<<"5", "-", "6", " ", "l", "e", "t">>)
BaseOrg == Str(<<"D", "S", "1", " ", "(", "g", ".", "M", "o", "s", "k", "v", "a", ")">>)

RawRow(p, age, org) ==
    [h \in AllHeaders |->
        CASE h.id = "Vozrast" -> age
          [] h.id = "Organizaciya" -> org
          [] OTHER -> ProfileCell(p, h.id)]

RowKinds ==
    {RawRow(p, BaseAge, BaseOrg) : p \in Profiles}
    \cup {RawRow("norm", a, BaseOrg) : a \in AgeLabels}
    \cup {RawRow("norm", BaseAge, o) : o \in Orgs}

Sheet(headers, rows) ==
    [readable |-> TRUE, headers |-> headers,
     rows |-> [i \in 1..Len(rows) |-> [h \in headers |-> rows[i][h]]]]
Unreadable == [readable |-> FALSE, headers |-> {}, rows |-> <<>>]

BaseSheet == Sheet(AllHeaders, <<RawRow("norm", BaseAge, BaseOrg)>>)

\* The columns a sheet may lack: each scoring input and the three other columns
\* that are indexed directly.
DropIds == ScoreCols \cup {"Vozrast", "Organizaciya", "Kod"}

\* Headers that are no key of COLUMN_MAPPING: the short names of the age column
\* and of an imagination scale, the name of a derived field, and a foreign name.
ForeignHeaders == {Short("Vozrast"), Short("V1"), Short("P1"), Short("Extra")}

\* A sheet of one child in which the header f stands in the place of the long
\* header of the same column (or is added, when there is no such column).
ForeignSheet(f) ==
    [readable |-> TRUE, headers |-> (AllHeaders \ {Long(f.id)}) \cup {f},
     rows |-> <<[h \in (AllHeaders \ {Long(f.id)}) \cup {f} |->
                  IF h # f THEN RawRow("norm", BaseAge, BaseOrg)[h]
                  ELSE IF f.id = "Vozrast" THEN BaseAge
                  ELSE ProfileCell("above", f.id)]>>]

Contents ==
    {Sheet(AllHeaders, rows) : rows \in SeqsUpTo(RowKinds, MaxRows)}
    \cup {Sheet(AllHeaders \ {Long(c)}, <<RawRow("norm", BaseAge, BaseOrg)>>) : c \in DropIds}
    \cup {ForeignSheet(f) : f \in ForeignHeaders}
    \cup {Unreadable}

Inputs ==
    (SeqsUpTo(NameChars, MaxNameLen) \X {Unreadable, BaseSheet})
    \cup ({RAZVITIE, BAD} \X Contents)

(***************************************************************************)
(* process_excel, statement by statement.                                  *)
(***************************************************************************)

\* The same with the sheet read before the file name is looked at.
StepOrder_readFirst ==
    <<"read_excel", "validate", "rename", "labs", "attention", "criteria", "composites",
      "levels", "level_tables", "median_table", "age_counts", "towns", "export", "write">>

\* The statements of lines 186-390 in the order they run.
StepOrder ==
    <<"validate", "read_excel", "rename", "labs", "attention", "criteria", "composites",
      "levels", "level_tables", "median_table", "age_counts", "towns", "export", "write">>

After(step) ==
    LET i == CHOOSE k \in 1..Len(StepOrder) : StepOrder[k] = step
    IN  IF i < Len(StepOrder) THEN StepOrder[i + 1] ELSE "returned"

Init ==
    /\ pc = StepOrder[1]
    /\ fn = "process_excel" /\ args = <<>> /\ ret = <<>>
    /\ \E input \in Inputs : filename = input[1] /\ content = input[2]
    /\ reads = 0 /\ match = <<>> /\ df = <<>>
    /\ level_tables = <<>> /\ median_table = <<>> /\ age_counts = <<>>
    /\ towns_with_total = <<>> /\ df_export = <<>> /\ result = <<>>

Raise(e) == pc' = "raised" /\ result' = e

\* Lines 186-190.
ValidateFilename ==
    /\ pc = "validate"
    /\ match' = MatchName(filename)
    /\ IF MatchName(filename).ok
       THEN pc' = After("validate") /\ UNCHANGED result
       ELSE Raise(FilenameError)
    /\ UNCHANGED <<fnvars, filename, content, reads, df, tables>>

\* Line 193.
ReadExcel ==
    /\ pc = "read_excel"
    /\ reads' = reads + 1
    /\ IF content.readable
       THEN /\ df' = [columns |-> content.headers, rows |-> content.rows]
            /\ pc' = After("read_excel") /\ UNCHANGED result
       ELSE Raise(CodecError) /\ UNCHANGED df
    /\ UNCHANGED <<fnvars, filename, content, match, tables>>

\* Line 195.
RenameColumns ==
    /\ pc = "rename"
    /\ df' = [columns |-> {Renamed(h) : h \in df.columns},
              rows |-> [i \in 1..NRows(df) |->
                          [c \in {Renamed(h) : h \in df.columns} |->
                              df.rows[i][CHOOSE h \in df.columns : Renamed(h) = c]]]]
    /\ pc' = After("rename")
    /\ UNCHANGED <<fnvars, filename, content, reads, match, tables, result>>

LabValues(x) ==
    [c \in Range(LabCol) \cup {"Analit-Sint"} |->
        IF c = "Analit-Sint" THEN AnalitSint(x)
        ELSE LabScore(x, CHOOSE i \in 1..5 : LabCol[i] = c)]

\* Lines 198-204.
ScoreLabs ==
    /\ pc = "labs"
    /\ df' = AddCols(df, Range(LabCol) \cup {"Analit-Sint"}, LabValues)
    /\ pc' = After("labs")
    /\ UNCHANGED <<fnvars, filename, content, reads, match, tables, result>>

AttentionValues(x) ==
    [c \in Range(VnimCol) \cup {"SredVnim", "Kachestvo vnimaniya"} |->
        CASE c = "SredVnim" -> SredVnim(x)
          [] c = "Kachestvo vnimaniya" -> KachestvoVnimaniya(SredVnim(x))
          [] OTHER -> Vnim(x, CHOOSE i \in 1..5 : VnimCol[i] = c)]

\* Lines 207-213.
ScoreAttention ==
    /\ pc = "attention"
    /\ df' = AddCols(df, Range(VnimCol) \cup {"SredVnim", "Kachestvo vnimaniya"}, AttentionValues)
    /\ pc' = After("attention")
    /\ UNCHANGED <<fnvars, filename, content, reads, match, tables, result>>

\* A frame without rows has columns of dtype object; whether arithmetic, round and
\* median accept such a column depends on the pandas release, so both outcomes are kept.
ObjectDtypeRaises(d) == IF NRows(d) = 0 THEN BOOLEAN ELSE {FALSE}

CriterionValues(x) ==
    [c \in {"Svyazn", "RechOform", "SamostRass"} |->
        CASE c = "Svyazn" -> Criterion(x, "I1-2Svyazn")
          [] c = "RechOform" -> Criterion(x, "I1-2RechOform")
          [] OTHER -> Criterion(x, "I1-2SamRass")]

\* Lines 216-218.
ScoreCriteria ==
    /\ pc = "criteria"
    /\ \E raises \in ObjectDtypeRaises(df) :
        LET e == FirstError(df, <<"I1-2Svyazn", "I1-2RechOform", "I1-2SamRass">>)
        IN  IF e # "" THEN Raise(Raised(e)) /\ UNCHANGED df
            ELSE IF raises THEN Raise(TypeError) /\ UNCHANGED df
            ELSE /\ df' = AddCols(df, {"Svyazn", "RechOform", "SamostRass"}, CriterionValues)
                 /\ pc' = After("criteria") /\ UNCHANGED result
    /\ UNCHANGED <<fnvars, filename, content, reads, match, tables>>

CompositeCols ==
    {"Gotovn_UD", "Log_obobshchenie", "Percepciya", "Aktivn_vniman", "Analit_sint",
     "Voobrazhenie", "Identif_emocij", "Planirovanie", "Sotrudnichestvo", "Refleksiya",
     "Kognitivnoe razvitie", "Voobrazhenie_itog", "EmSocIntellekt"}

CompositeValues(x) ==
    [c \in CompositeCols |->
        CASE c = "Gotovn_UD" -> GotovnUD(x)
          [] c = "Log_obobshchenie" -> LogObobshchenie(x)
          [] c = "Percepciya" -> Percepciya(x)
          [] c = "Aktivn_vniman" -> x["Kachestvo vnimaniya"]
          [] c = "Analit_sint" -> x["Analit-Sint"]
          [] c = "Voobrazhenie" -> Voobrazhenie(x)
          [] c = "Identif_emocij" -> IdentifEmocij(x)
          [] c = "Planirovanie" -> Observation(x, "Planir")
          [] c = "Sotrudnichestvo" -> Observation(x, "Sotrud")
          [] c = "Refleksiya" -> Observation(x, "Reflek")
          [] c = "Kognitivnoe razvitie" -> KognitivnoeRazvitie(x)
          [] c = "Voobrazhenie_itog" -> Voobrazhenie(x)
          [] OTHER -> EmSocIntellekt(x)]

\* Lines 221-233.
ScoreComposites ==
    /\ pc = "composites"
    /\ LET e == FirstError(df, <<"I1-1Sum", "I2Sum", "I4Sum", "V1", "V2", "EmocIdent",
                                 "Planir", "Sotrud", "Reflek">>)
       IN  IF e # "" THEN Raise(Raised(e)) /\ UNCHANGED df
           ELSE /\ df' = AddCols(df, CompositeCols, CompositeValues)
                /\ pc' = After("composites") /\ UNCHANGED result
    /\ UNCHANGED <<fnvars, filename, content, reads, match, tables>>

LevelValues(x) ==
    [c \in Range(LevelCol) |-> categorize(x[CHOOSE m \in Range(Metrics) : LevelCol[m] = c])]

\* Lines 236-237.
Categorize ==
    /\ pc = "levels"
    /\ df' = AddCols(df, Range(LevelCol), LevelValues)
    /\ pc' = After("levels")
    /\ UNCHANGED <<fnvars, filename, content, reads, match, tables, result>>

\* Lines 240-248.
BuildLevelTables ==
    /\ pc = "level_tables"
    /\ level_tables' = [m \in Range(Metrics) |-> LevelTable(df, m)]
    /\ pc' = After("level_tables")
    /\ UNCHANGED <<fnvars, filename, content, reads, match, df, median_table, age_counts,
                   towns_with_total, df_export, result>>

\* Lines 250-257.
BuildMedianTable ==
    /\ pc = "median_table"
    /\ \E raises \in ObjectDtypeRaises(df) :
        IF raises THEN Raise(TypeError) /\ UNCHANGED median_table
        ELSE /\ median_table' = MedianTable(df)
             /\ pc' = After("median_table") /\ UNCHANGED result
    /\ UNCHANGED <<fnvars, filename, content, reads, match, df, level_tables, age_counts,
                   towns_with_total, df_export>>

\* Lines 259-269.
BuildAgeCounts ==
    /\ pc = "age_counts"
    /\ IF "Vozrast" \notin df.columns THEN Raise(KeyError) /\ UNCHANGED age_counts
       ELSE /\ age_counts' \in AgeSorted(df)
            /\ pc' = After("age_counts") /\ UNCHANGED result
    /\ UNCHANGED <<fnvars, filename, content, reads, match, df, level_tables, median_table,
                   towns_with_total, df_export>>

TownValue(x) == [c \in {"Naselyonnyj punkt"} |-> extract_town(x["Organizaciya"])]

\* Lines 271-281.
BuildTowns ==
    /\ pc = "towns"
    /\ IF "Organizaciya" \notin df.columns
       THEN Raise(KeyError) /\ UNCHANGED <<df, towns_with_total>>
       ELSE /\ df' = AddCols(df, {"Naselyonnyj punkt"}, TownValue)
            /\ towns_with_total' =
                   WithTotal(SortTowns(TownRows(AddCols(df, {"Naselyonnyj punkt"}, TownValue))))
            /\ pc' = After("towns") /\ UNCHANGED result
    /\ UNCHANGED <<fnvars, filename, content, reads, match, level_tables, median_table,
                   age_counts, df_export>>

\* Lines 284-308.
BuildExport ==
    /\ pc = "export"
    /\ IF \E i \in 1..Len(ExportCols) : ExportCols[i] \notin df.columns
       THEN Raise(KeyError) /\ UNCHANGED df_export
       ELSE /\ df_export' = [i \in 1..NRows(df) |->
                                [c \in Range(ExportCols) |-> df.rows[i][c]]]
            /\ pc' = After("export") /\ UNCHANGED result
    /\ UNCHANGED <<fnvars, filename, content, reads, match, df, level_tables, median_table,
                   age_counts, towns_with_total>>

\* Lines 311-390: the seven sheets, and the name the workbook is returned under.
WriteWorkbook ==
    /\ pc = "write"
    /\ result' = Returned(<<age_counts, median_table, level_tables[Metrics[1]],
                            level_tables[Metrics[2]], level_tables[Metrics[3]],
                            towns_with_total, df_export>>,
                          OutputFilename(match.g1, match.g2))
    /\ pc' = After("write")
    /\ UNCHANGED <<fnvars, filename, content, reads, match, df, tables>>

Next ==
    \/ ValidateFilename \/ ReadExcel \/ RenameColumns
    \/ ScoreLabs \/ ScoreAttention \/ ScoreCriteria \/ ScoreComposites \/ Categorize
    \/ BuildLevelTables \/ BuildMedianTable \/ BuildAgeCounts \/ BuildTowns
    \/ BuildExport \/ WriteWorkbook

Spec == Init /\ [][Next]_vars

(***************************************************************************)
(* Claims about process_excel, checked under Spec.                         *)
(***************************************************************************)
Pos(step) == CHOOSE k \in 1..Len(StepOrder) : StepOrder[k] = step

\* The run has executed the statements of step and has raised nothing since.
Done(step) == pc = "returned" \/ (pc \in Range(StepOrder) /\ Pos(pc) > Pos(step))

\* The text s begins with digits, a hyphen, digits.
HasNumericPrefix(s) ==
    \E i \in 1..Len(s) : \E j \in (i + 2)..Len(s) :
        /\ \A k \in 1..i : IsDigit(s[k])
        /\ s[i + 1] = "-"
        /\ \A k \in (i + 2)..j : IsDigit(s[k])

\* C5: the file name is checked before the spreadsheet bytes are read: while the
\* name does not begin with digits, a hyphen, digits, the run is either still at
\* the check or has ended with the filename-format error, and read_excel has never
\* been called, whatever the bytes are.
C5_FilenameCheckedFirst ==
    ~HasNumericPrefix(filename) =>
        /\ reads = 0
        /\ pc \in {"validate", "raised"}
        /\ pc = "raised" => result = FilenameError

\* An invalid name with unreadable bytes has ended with the filename-format error.
C5_Witness ==
    /\ pc = "raised" /\ result = FilenameError /\ reads = 0
    /\ ~HasNumericPrefix(filename) /\ ~content.readable

\* C6: a file name is accepted exactly when it begins with digits, a hyphen, digits;
\* the first group is the whole leading run of digits and the second the whole run
\* of digits after the hyphen that follows it, both as written; the name returned is
\* the fixed prefix, the first group, a hyphen, the second group and ".xlsx".
\* "5-31-Razvitie.xlsx" gives "5" and "31"; "bad.xlsx" is rejected.
C6_Filename ==
    pc # "validate" =>
        /\ match.ok <=> HasNumericPrefix(filename)
        /\ (pc = "raised" /\ result = FilenameError) <=> ~HasNumericPrefix(filename)
        /\ match.ok =>
              LET a == Len(match.g1)
                  b == Len(match.g2)
              IN  /\ a >= 1 /\ b >= 1
                  /\ match.g1 = SubSeq(filename, 1, a)
                  /\ \A k \in 1..a : IsDigit(filename[k])
                  /\ filename[a + 1] = "-"
                  /\ match.g2 = SubSeq(filename, a + 2, a + 1 + b)
                  /\ \A k \in (a + 2)..(a + 1 + b) : IsDigit(filename[k])
                  /\ a + 2 + b > Len(filename) \/ ~IsDigit(filename[a + 2 + b])
        /\ pc = "returned" =>
              result.name = ANALITIKA \o match.g1 \o <<"-">> \o match.g2 \o XLSX
        /\ filename = RAZVITIE => match.ok /\ match.g1 = <<"5">> /\ match.g2 = <<"3", "1">>
        /\ filename = BAD => pc = "raised" /\ result = FilenameError

\* "5-31-Razvitie.xlsx" has been processed and the workbook is named after 5 and 31.
C6_Witness ==
    /\ pc = "returned" /\ filename = RAZVITIE
    /\ result.name = ANALITIKA \o <<"5", "-", "3", "1">> \o XLSX

\* A name with a leading zero has been accepted and the zero kept.
C6_WitnessLeadingZero ==
    /\ pc = "returned" /\ Len(match.g1) = 2 /\ match.g1[1] = "0"
    /\ result.name = ANALITIKA \o match.g1 \o <<"-">> \o match.g2 \o XLSX

\* The number of records of the table whose level of metric m is l.
WithLevel(m, l) == Cardinality({r \in 1..Len(df.rows) : df.rows[r][LevelCol[m]] = l})

\* The sum of the three counts of the level table of metric m.
CountSum(m) ==
    level_tables[m][1].Kolichestvo + level_tables[m][2].Kolichestvo
        + level_tables[m][3].Kolichestvo

\* C7: for each of the three categorized metrics the level table has exactly three
\* rows, in the order below normative, normative, above normative; each row counts
\* the records of that level, 0 when there is none; and each row's share is its
\* count divided by the number of all records, those without a level included
\* (with no record at all the division 0 / 0 gives NaN).
C7_LevelTable ==
    Done("level_tables") =>
        \A m \in Range(Metrics) :
            /\ Len(level_tables[m]) = 3
            /\ level_tables[m][1].Uroven = LevelBelow
            /\ level_tables[m][2].Uroven = LevelNorm
            /\ level_tables[m][3].Uroven = LevelAbove
            /\ \A i \in 1..3 :
                  /\ level_tables[m][i].Kolichestvo = WithLevel(m, level_tables[m][i].Uroven)
                  /\ level_tables[m][i].Dolya =
                         IF Len(df.rows) > 0
                         THEN FRat(level_tables[m][i].Kolichestvo, Len(df.rows))
                         ELSE FNaN

\* Two records, one without a level: the normative row has 1 of 2, the row above 0.
C7_Witness ==
    /\ Done("level_tables") /\ Len(df.rows) = 2
    /\ \E m \in Range(Metrics) :
          /\ WithLevel(m, NoLevel) = 1
          /\ level_tables[m][2].Kolichestvo = 1
          /\ level_tables[m][2].Dolya = FNum(1, 2)
          /\ level_tables[m][3].Kolichestvo = 0

\* C8 as stated: the three counts of each level table sum to the number of records.
C8_CountsSumToTotal ==
    Done("level_tables") => \A m \in Range(Metrics) : CountSum(m) = Len(df.rows)

\* C8, amended: the three counts of each level table sum to the number of records
\* whose level of that metric is defined, which is the number of records less
\* those without a level.
C8_CountsSumToDefined ==
    Done("level_tables") =>
        \A m \in Range(Metrics) :
            /\ CountSum(m) = Cardinality({r \in 1..Len(df.rows) :
                                             df.rows[r][LevelCol[m]] # NoLevel})
            /\ CountSum(m) = Len(df.rows) - WithLevel(m, NoLevel)

\* Two records of which one has no level: the counts sum to 1.
C8_Witness ==
    /\ Done("level_tables") /\ Len(df.rows) = 2
    /\ \E m \in Range(Metrics) : WithLevel(m, NoLevel) = 1 /\ CountSum(m) = 1

RECURSIVE SumPct(_, _)
\* The sum of the percentages of the rows of the age table t from position i on.
SumPct(t, i) == IF i > Len(t) THEN FNum(0, 1) ELSE FAdd(t[i].pct, SumPct(t, i + 1))

\* The records whose age group label is not blank.
Labelled == {r \in 1..Len(df.rows) : df.rows[r]["Vozrast"] # NaN}

\* C9 as stated: for every table the percentages of the age table sum to 1, each
\* the row's count divided by the sum of the counts, blank labels or not.
C9_PercentagesSumToOne ==
    Done("age_counts") =>
        /\ FEq(SumPct(age_counts, 1), FNum(1, 1))
        /\ \A i \in 1..Len(age_counts) :
              age_counts[i].pct = Share(age_counts[i].n, SumOver(age_counts, 1))

\* C9, amended: when at least one record has a label that is not blank, each row
\* counts the records with its label, its percentage is that count divided by the
\* number of records with a label that is not blank, and the percentages sum
\* to 1; when no record has such a label the age table has no row.
C9_PercentagesOfLabelled ==
    Done("age_counts") =>
        IF Labelled = {} THEN age_counts = <<>>
        ELSE /\ FEq(SumPct(age_counts, 1), FNum(1, 1))
             /\ SumOver(age_counts, 1) = Cardinality(Labelled)
             /\ \A i \in 1..Len(age_counts) :
                   /\ age_counts[i].n = Cardinality({r \in Labelled :
                                           df.rows[r]["Vozrast"] = age_counts[i].gruppa})
                   /\ age_counts[i].pct = FRat(age_counts[i].n, Cardinality(Labelled))

\* Two records, one with a blank label: the one row has 1 record and 100 per cent.
C9_Witness ==
    /\ Done("age_counts") /\ Len(df.rows) = 2 /\ Cardinality(Labelled) = 1
    /\ Len(age_counts) = 1 /\ age_counts[1].n = 1 /\ age_counts[1].pct = FNum(1, 1)

\* Two records of two age groups: two rows of 50 per cent each.
C9_WitnessTwoGroups ==
    /\ Done("age_counts") /\ Len(age_counts) = 2
    /\ age_counts[1].pct = FNum(1, 2) /\ age_counts[2].pct = FNum(1, 2)

\* C10: the town table ends with one total row, after all town rows, whose count is
\* the sum of the counts of the rows before it (0 when there is none); no row
\* before it is a total row, and each of them has a count of at least 1.
C10_TownTotal ==
    Done("towns") =>
        LET k == Len(towns_with_total)
        IN  /\ k >= 1
            /\ towns_with_total[k].punkt = ITOGO
            /\ towns_with_total[k].n = SumOver(SubSeq(towns_with_total, 1, k - 1), 1)
            /\ \A i \in 1..(k - 1) :
                  /\ towns_with_total[i].punkt # ITOGO
                  /\ towns_with_total[i].n >= 1

\* One town with two organisations: one town row of 2 and the total row of 2.
C10_Witness ==
    /\ Done("towns") /\ Len(towns_with_total) = 2
    /\ towns_with_total[1].n = 2 /\ towns_with_total[2].n = 2
    /\ towns_with_total[2].punkt = ITOGO

\* Two towns of one organisation each: the total row of 2 after two town rows.
C10_WitnessTwoTowns ==
    /\ Done("towns") /\ Len(towns_with_total) = 3
    /\ towns_with_total[3].punkt = ITOGO /\ towns_with_total[3].n = 2

\* No town can be told from the organisations: the total row alone, with 0.
C10_WitnessNoTown ==
    /\ Done("towns") /\ Len(df.rows) > 0
    /\ towns_with_total = <<[punkt |-> ITOGO, n |-> 0]>>

(***************************************************************************)
(* The upload endpoint: process(), lines 554-576.  fn is "process", args   *)
(* the request and ret the response; process_excel runs in between.        *)
(***************************************************************************)
\* A request without a part named file, and one with it.
NoFile == [has_file |-> FALSE, filename |-> <<>>, content |-> Unreadable]
Upload(name, bytes) == [has_file |-> TRUE, filename |-> name, content |-> bytes]

Requests == {NoFile} \cup {Upload(input[1], input[2]) : input \in Inputs}

FILE_NOT_FOUND == "Fajl ne najden"
FILE_NOT_CHOSEN == "Fajl ne vybran"

\* jsonify({'error': message}), status, with the status forced to 200.
JsonError_200(status, message) ==
    [status |-> 200, json |-> TRUE, error |-> message, body |-> <<>>, x_filename |-> <<>>]

\* jsonify({'error': message}), status.
JsonError(status, message) ==
    [status |-> status, json |-> TRUE, error |-> message, body |-> <<>>, x_filename |-> <<>>]

\* Lines 565-573: send_file of the bytes with the header X-Filename.
FileResponse(result_content, result_filename) ==
    [status |-> 200, json |-> FALSE, error |-> "", body |-> result_content,
     x_filename |-> result_filename]

InitHttp ==
    /\ pc = "request"
    /\ fn = "process" /\ args \in Requests /\ ret = <<>>
    /\ NoRun

\* Lines 558-564, up to the call of process_excel.
CheckRequest ==
    /\ pc = "request" /\ fn = "process"
    /\ IF ~args.has_file
       THEN /\ ret' = JsonError(400, FILE_NOT_FOUND) /\ pc' = "responded"
            /\ UNCHANGED <<filename, content>>
       ELSE IF args.filename = <<>>
       THEN /\ ret' = JsonError(400, FILE_NOT_CHOSEN) /\ pc' = "responded"
            /\ UNCHANGED <<filename, content>>
       ELSE /\ filename' = args.filename /\ content' = args.content
            /\ pc' = StepOrder[1] /\ UNCHANGED ret
    /\ UNCHANGED <<fn, args, reads, match, df, tables, result>>

\* Lines 564-576, from the return of process_excel or the exception it raised.
Respond ==
    /\ pc \in {"returned", "raised"} /\ fn = "process"
    /\ ret' = IF result.raised THEN JsonError(500, result.error)
              ELSE FileResponse(result.bytes, result.name)
    /\ pc' = "responded"
    /\ UNCHANGED <<fn, args, runvars>>

NextHttp == CheckRequest \/ Next \/ Respond

SpecHttp == InitHttp /\ [][NextHttp]_vars

(***************************************************************************)
(* Claims about the endpoint, checked under SpecHttp.                      *)
(***************************************************************************)
\* The columns process_excel indexes directly (df[...]), by their mapped names.
RequiredCols ==
    {"I1-2Svyazn", "I1-2RechOform", "I1-2SamRass", "I1-1Sum", "I2Sum", "I4Sum", "V1", "V2",
     "EmocIdent", "Planir", "Sotrud", "Reflek", "Vozrast", "Organizaciya", "Kod"}

\* The sheet of the request lacks a column that is indexed directly.
LacksRequired(r) ==
    /\ r.content.readable
    /\ \E c \in RequiredCols : \A h \in r.content.headers : Renamed(h) # c

IsSuccess(r) == r.status = 200 /\ ~r.json /\ r.body # <<>> /\ r.x_filename # <<>>
IsError(r) ==
    /\ r.json /\ r.error # "" /\ r.status \notin 200..299
    /\ r.body = <<>> /\ r.x_filename = <<>>

\* C11: every request ends with a success response (status 200, the bytes of the
\* whole workbook process_excel returned, X-Filename the name it returned) or with a
\* JSON error of a status outside 200..299 that carries no bytes, never both; a
\* request without a file part, with an empty or malformed file name, with
\* unreadable bytes or without a required column gets the error, and for the
\* first two process_excel is not entered.
C11_Outcomes ==
    /\ pc # "responded" => ret = <<>>
    /\ pc = "responded" =>
          /\ IsSuccess(ret) # IsError(ret)
          /\ IsSuccess(ret) =>
                /\ result = Returned(ret.body, ret.x_filename)
                /\ ret.body = <<age_counts, median_table, level_tables[Metrics[1]],
                                level_tables[Metrics[2]], level_tables[Metrics[3]],
                                towns_with_total, df_export>>
                /\ ret.x_filename = ANALITIKA \o match.g1 \o <<"-">> \o match.g2 \o XLSX
          /\ (\/ ~args.has_file \/ args.filename = <<>>
              \/ ~HasNumericPrefix(args.filename) \/ ~args.content.readable
              \/ LacksRequired(args)) => IsError(ret)
          /\ (~args.has_file \/ args.filename = <<>>) =>
                ret.status = 400 /\ NoRun

\* A request whose sheet is processed has been answered with the workbook.
C11_Witness ==
    /\ pc = "responded" /\ IsSuccess(ret) /\ args.filename = RAZVITIE
    /\ Len(args.content.rows) = 2

\* A request whose sheet lacks the age column has been answered with the error 500.
C11_WitnessMissingColumn ==
    /\ pc = "responded" /\ IsError(ret) /\ ret.status = 500
    /\ LacksRequired(args) /\ ret.error = "KeyError"

\* A request without a file part has been answered with the error 400.
C11_WitnessNoFile ==
    pc = "responded" /\ ~args.has_file /\ ret = JsonError(400, FILE_NOT_FOUND) /\ NoRun

(***************************************************************************)
(* Claims about absent columns and text cells, checked under Spec.         *)
(***************************************************************************)
\* The sheet has a column that is renamed to c.
HasColumn(c) == \E h \in content.headers : Renamed(h) = c

\* The scoring inputs that the sheet lacks.
AbsentScoring == {c \in ScoreCols : ~HasColumn(c)}

\* The scoring inputs that are numbers: all but the five reached flags.
NumericCols == ScoreCols \ Range(LabReachedCol)

\* The sheet holds a text in a numeric scoring column.
HasTextScore ==
    \E i \in 1..Len(content.rows) : \E h \in content.headers :
        Renamed(h) \in NumericCols /\ content.rows[i][h].k = "str"

\* A run that nothing but an absent scoring column could stop: the name is valid,
\* the sheet readable with at least one row, no scoring cell is a text and the
\* code, age and organisation columns are there.
OnlyScoringAbsent ==
    /\ HasNumericPrefix(filename) /\ content.readable /\ Len(content.rows) > 0
    /\ ~HasTextScore
    /\ HasColumn("Kod") /\ HasColumn("Vozrast") /\ HasColumn("Organizaciya")
    /\ AbsentScoring # {}

\* C12: a sheet from which a mapped scoring input column is absent is scored
\* without raising.
C12_AbsentColumnNeverRaises ==
    OnlyScoringAbsent => pc # "raised"

\* The part of C12 the code does satisfy: an absent labyrinth or attention column,
\* which is read with x.get, stops nothing, and the score it feeds is the one of
\* a missing value: 0 for an absent time, the error count 0 for absent errors,
\* reached taken as not "Net", 0 rings and 0 errors of attention.
C12_GetColumnsTolerated ==
    /\ OnlyScoringAbsent /\ AbsentScoring \subseteq
           (Range(LabTimeCol) \cup Range(LabErrCol) \cup Range(LabReachedCol)
            \cup Range(RingsCol) \cup Range(AttErrCol))
         => pc # "raised"
    /\ OnlyScoringAbsent /\ Done("attention") =>
          \A r \in 1..Len(df.rows) : \A i \in 1..5 :
              /\ LabTimeCol[i] \in AbsentScoring => df.rows[r][LabCol[i]] = 0
              /\ LabErrCol[i] \in AbsentScoring =>
                    df.rows[r][LabCol[i]] =
                        calc_lab(df.rows[r][LabTimeCol[i]], Num(0, 1),
                                 df.rows[r][LabReachedCol[i]], LabLimits[i])
              /\ RingsCol[i] \in AbsentScoring =>
                    df.rows[r][VnimCol[i]] =
                        attention_index(Num(0, 1), df.rows[r][AttErrCol[i]])
              /\ AttErrCol[i] \in AbsentScoring =>
                    df.rows[r][VnimCol[i]] =
                        attention_index(df.rows[r][RingsCol[i]], Num(0, 1))

\* A sheet without the rings column of minute 2 has been processed to the end.
C12_WitnessGet ==
    /\ OnlyScoringAbsent /\ pc = "returned" /\ "I3-2Kolca" \in AbsentScoring

\* A run that nothing but a text in a numeric scoring cell could stop.
OnlyTextScore ==
    /\ HasNumericPrefix(filename) /\ content.readable /\ Len(content.rows) > 0
    /\ \A c \in DropIds : HasColumn(c)
    /\ HasTextScore

\* The numeric scoring columns that are read with x.get inside calc_lab and
\* attention_index, where float() and int() are guarded.
GuardedCols ==
    Range(LabTimeCol) \cup Range(LabErrCol) \cup Range(RingsCol) \cup Range(AttErrCol)

\* C13: a text where a number is expected is never fatal: the run of a sheet with
\* such a cell does not raise.
C13_TextCellNeverFatal ==
    OnlyTextScore => pc # "raised"

\* The part of C13 the code does satisfy: a text in a labyrinth or attention cell
\* stops nothing; a text time gives the score 0, text rings count as 0.
C13_GuardedTextTolerated ==
    (/\ OnlyTextScore
     /\ \A i \in 1..Len(content.rows) : \A h \in content.headers :
           Renamed(h) \in NumericCols /\ content.rows[i][h].k = "str"
               => Renamed(h) \in GuardedCols)
      => /\ pc # "raised"
         /\ Done("attention") =>
               \A r \in 1..Len(df.rows) : \A i \in 1..5 :
                   /\ df.rows[r][LabTimeCol[i]].k = "str" => df.rows[r][LabCol[i]] = 0
                   /\ df.rows[r][RingsCol[i]].k = "str" =>
                         df.rows[r][VnimCol[i]] =
                             attention_index(Num(0, 1), df.rows[r][AttErrCol[i]])

\* A sheet with text in the labyrinth times and the rings has been processed.
C13_WitnessGuarded ==
    /\ OnlyTextScore /\ pc = "returned"
    /\ \E r \in 1..Len(df.rows) : df.rows[r]["I5-1Vremya"].k = "str"

(***************************************************************************)
(* Claims about the normalised columns, checked under Spec.                *)
(***************************************************************************)
\* The names the keys of COLUMN_MAPPING among the sheet's headers are renamed to.
MappedNames == {COLUMN_MAPPING[h] : h \in content.headers \cap DOMAIN COLUMN_MAPPING}

\* C14: after the renaming the frame holds the columns of the mapped headers only,
\* under their mapped names, and a workbook is returned only from a sheet whose
\* directly indexed columns all come from mapped headers: a column under any other
\* header is used nowhere.
C14_OnlyMappedRetained ==
    /\ pc = After("rename") => df.columns = MappedNames
    /\ pc = "returned" => RequiredCols \subseteq MappedNames

\* What the code does instead: the renaming keeps every column, a header that is
\* no key of the mapping under its own text.
C14_RenameKeepsAll ==
    pc = After("rename") =>
        /\ df.columns = MappedNames \cup
               {h.id : h \in content.headers \ DOMAIN COLUMN_MAPPING}
        /\ \A i \in 1..Len(df.rows) : \A h \in content.headers :
               df.rows[i][Renamed(h)] = content.rows[i][h]

\* A sheet whose age column stands under the short name and not under a key of
\* the mapping has been processed, the age table built from that column.
C14_WitnessShortAge ==
    /\ pc = "returned" /\ "Vozrast" \notin MappedNames
    /\ Len(age_counts) = 1 /\ age_counts[1].gruppa = BaseAge

(***************************************************************************)
(* The assignments of lines 198-237 one statement at a time, at the level  *)
(* of columns: which columns the frame has and which derived fields have   *)
(* been assigned.  A state of this run is the one of process_excel after   *)
(* line 195; pc is the field about to be assigned, ret the set of derived  *)
(* fields assigned so far, and the rows of df are not followed.            *)
(***************************************************************************)
\* The same with the mean of the labyrinth scores taken before the fifth score.
DeriveOrder_meanFirst ==
    <<"P1", "P2", "P3", "P4", "Analit-Sint", "P5",
      "Vnim1", "Vnim2", "Vnim3", "Vnim4", "Vnim5", "SredVnim", "Kachestvo vnimaniya",
      "Svyazn", "RechOform", "SamostRass",
      "Gotovn_UD", "Log_obobshchenie", "Percepciya", "Aktivn_vniman", "Analit_sint",
      "Voobrazhenie", "Identif_emocij", "Planirovanie", "Sotrudnichestvo", "Refleksiya",
      "Kognitivnoe razvitie", "Voobrazhenie_itog", "EmSocIntellekt",
      "Kognitivnoe razvitie_uroven", "Voobrazhenie_itog_uroven", "EmSocIntellekt_uroven">>

\* The fields assigned by lines 198-237, in the order of the statements.
DeriveOrder ==
    <<"P1", "P2", "P3", "P4", "P5", "Analit-Sint",
      "Vnim1", "Vnim2", "Vnim3", "Vnim4", "Vnim5", "SredVnim", "Kachestvo vnimaniya",
      "Svyazn", "RechOform", "SamostRass",
      "Gotovn_UD", "Log_obobshchenie", "Percepciya", "Aktivn_vniman", "Analit_sint",
      "Voobrazhenie", "Identif_emocij", "Planirovanie", "Sotrudnichestvo", "Refleksiya",
      "Kognitivnoe razvitie", "Voobrazhenie_itog", "EmSocIntellekt",
      "Kognitivnoe razvitie_uroven", "Voobrazhenie_itog_uroven", "EmSocIntellekt_uroven">>

\* The columns the statement that assigns field f reads with x.get (an absent one
\* reads as None).
Gets(f) ==
    IF \E i \in 1..5 : LabCol[i] = f
    THEN LET i == CHOOSE k \in 1..5 : LabCol[k] = f
         IN  {LabTimeCol[i], LabErrCol[i], LabReachedCol[i]}
    ELSE IF \E i \in 1..5 : VnimCol[i] = f
    THEN LET i == CHOOSE k \in 1..5 : VnimCol[k] = f
         IN  {RingsCol[i], AttErrCol[i]}
    ELSE {}

\* The columns the statement that assigns field f reads with df[...] (an absent
\* one raises KeyError).
Reads(f) ==
    CASE f = "Analit-Sint" -> Range(LabCol)
      [] f = "SredVnim" -> Range(VnimCol)
      [] f = "Kachestvo vnimaniya" -> {"SredVnim"}
      [] f = "Svyazn" -> {"I1-2Svyazn"}
      [] f = "RechOform" -> {"I1-2RechOform"}
      [] f = "SamostRass" -> {"I1-2SamRass"}
      [] f = "Gotovn_UD" -> {"I1-1Sum", "Svyazn", "RechOform", "SamostRass"}
      [] f = "Log_obobshchenie" -> {"I2Sum"}
      [] f = "Percepciya" -> {"I4Sum"}
      [] f = "Aktivn_vniman" -> {"Kachestvo vnimaniya"}
      [] f = "Analit_sint" -> {"Analit-Sint"}
      [] f = "Voobrazhenie" -> {"V1", "V2"}
      [] f = "Identif_emocij" -> {"EmocIdent"}
      [] f = "Planirovanie" -> {"Planir"}
      [] f = "Sotrudnichestvo" -> {"Sotrud"}
      [] f = "Refleksiya" -> {"Reflek"}
      [] f = "Kognitivnoe razvitie" ->
            {"Gotovn_UD", "Aktivn_vniman", "Analit_sint", "Log_obobshchenie", "Percepciya"}
      [] f = "Voobrazhenie_itog" -> {"Voobrazhenie"}
      [] f = "EmSocIntellekt" ->
            {"Identif_emocij", "Planirovanie", "Sotrudnichestvo", "Refleksiya"}
      [] f = "Kognitivnoe razvitie_uroven" -> {"Kognitivnoe razvitie"}
      [] f = "Voobrazhenie_itog_uroven" -> {"Voobrazhenie_itog"}
      [] f = "EmSocIntellekt_uroven" -> {"EmSocIntellekt"}
      [] OTHER -> {}

AfterField(f) ==
    LET i == CHOOSE k \in 1..Len(DeriveOrder) : DeriveOrder[k] = f
    IN  IF i < Len(DeriveOrder) THEN DeriveOrder[i + 1] ELSE "derived"

InitOrder ==
    /\ pc = DeriveOrder[1]
    /\ fn = "process_excel" /\ args = <<>> /\ ret = {}
    /\ filename = RAZVITIE /\ match = MatchName(RAZVITIE) /\ reads = 1
    /\ content \in {c \in Contents : c.readable}
    /\ df = [columns |-> {Renamed(h) : h \in content.headers}, rows |-> <<>>]
    /\ level_tables = <<>> /\ median_table = <<>> /\ age_counts = <<>>
    /\ towns_with_total = <<>> /\ df_export = <<>> /\ result = <<>>

\* One statement of lines 198-237: df[pc] = ...
AssignField ==
    /\ pc \in Range(DeriveOrder)
    /\ IF Reads(pc) \subseteq df.columns
       THEN /\ df' = [df EXCEPT !.columns = @ \cup {pc}]
            /\ ret' = ret \cup {pc}
            /\ pc' = AfterField(pc) /\ UNCHANGED result
       ELSE Raise(KeyError) /\ UNCHANGED <<df, ret>>
    /\ UNCHANGED <<fn, args, filename, content, reads, match, tables>>

NextOrder == AssignField

SpecOrder == InitOrder /\ [][NextOrder]_vars

(***************************************************************************)
(* Claims about the order of the assignments, checked under SpecOrder.     *)
(***************************************************************************)
\* C15: every derived field is assigned after all the fields its formula reads:
\* when a statement is about to run, each derived field it reads has been
\* assigned; in particular the five labyrinth scores before their mean, the five
\* attention indices before their mean and the attention quality, the three
\* criterion ratios before the readiness, the five components before the
\* cognitive development, the emotion identification and the three observation
\* ratios before the emotional-social intelligence, each composite before its level.
C15_AssignedBeforeRead ==
    /\ pc \in Range(DeriveOrder) =>
          (Reads(pc) \cup Gets(pc)) \cap Range(DeriveOrder) \subseteq ret
    /\ pc \in Range(DeriveOrder) => pc \notin ret
    /\ "Analit-Sint" \in ret => Range(LabCol) \subseteq ret
    /\ "SredVnim" \in ret => Range(VnimCol) \subseteq ret
    /\ "Kachestvo vnimaniya" \in ret => "SredVnim" \in ret
    /\ "Gotovn_UD" \in ret => {"Svyazn", "RechOform", "SamostRass"} \subseteq ret
    /\ "Kognitivnoe razvitie" \in ret =>
          {"Gotovn_UD", "Kachestvo vnimaniya", "Analit-Sint", "Log_obobshchenie",
           "Percepciya"} \subseteq ret
    /\ "EmSocIntellekt" \in ret =>
          {"Identif_emocij", "Planirovanie", "Sotrudnichestvo", "Refleksiya"} \subseteq ret
    /\ \A m \in Range(Metrics) : LevelCol[m] \in ret => m \in ret

\* All the fields have been assigned from a sheet that has every column.
C15_Witness ==
    /\ pc = "derived" /\ ret = Range(DeriveOrder)
    /\ {Renamed(h) : h \in content.headers} \cup ret = df.columns

\* The blocks of process_excel assign exactly the fields of DeriveOrder: once the
\* levels are set the frame has them all (checked under Spec).
DeriveOrderCoversBlocks ==
    /\ Done("levels") => Range(DeriveOrder) \subseteq df.columns
    /\ pc = After("rename") => \A f \in Range(DeriveOrder) :
          f \in df.columns => \E h \in ForeignHeaders : h.id = f

(***************************************************************************)
(* Claims about the order of the age and town tables, checked under Spec.  *)
(***************************************************************************)
\* The first whitespace-separated token of the text of label c before its first hyphen.
LeadToken(c) == FirstToken(BeforeFirst(c.s, "-"))

\* Label c starts with an integer, and the integer it starts with.
HasLeadingInt(c) == LeadToken(c) # <<>> /\ AllDigits(LeadToken(c))
LeadingInt(c) == DigitsValue(LeadToken(c))

\* C16 as stated: the age rows are in non-decreasing order of the integer that
\* starts the label, and every label without such an integer comes after every
\* label that has one.
C16_AgeOrder ==
    Done("age_counts") =>
        \A i, j \in 1..Len(age_counts) :
            i < j =>
                /\ HasLeadingInt(age_counts[i].gruppa) /\ HasLeadingInt(age_counts[j].gruppa)
                      => LeadingInt(age_counts[i].gruppa) <= LeadingInt(age_counts[j].gruppa)
                /\ ~(~HasLeadingInt(age_counts[i].gruppa) /\ HasLeadingInt(age_counts[j].gruppa))

\* The key of C16, amended: the leading integer, 999 for a label without one.
AgeKey(c) == IF HasLeadingInt(c) THEN LeadingInt(c) ELSE 999

\* C16, amended: the age rows are in non-decreasing order of the key, which is the
\* integer that starts the label and 999 for a label without one; so a label
\* without an integer comes after every label whose integer is below 999, and
\* before or after a label whose integer is 999 or more as that order requires.
C16_AgeOrderByKey ==
    Done("age_counts") =>
        \A i, j \in 1..Len(age_counts) :
            i < j =>
                /\ AgeKey(age_counts[i].gruppa) <= AgeKey(age_counts[j].gruppa)
                /\ ~HasLeadingInt(age_counts[i].gruppa) /\ HasLeadingInt(age_counts[j].gruppa)
                      => LeadingInt(age_counts[j].gruppa) >= 999

\* The label "6-7 let" stands before the label "starshe 7", which has no integer.
C16_Witness ==
    /\ Done("age_counts") /\ Len(age_counts) = 2
    /\ HasLeadingInt(age_counts[1].gruppa) /\ LeadingInt(age_counts[1].gruppa) = 6
    /\ ~HasLeadingInt(age_counts[2].gruppa)

\* The label "1000 let" stands after the label without an integer.
C16_WitnessAboveSentinel ==
    /\ Done("age_counts") /\ Len(age_counts) = 2
    /\ ~HasLeadingInt(age_counts[1].gruppa)
    /\ HasLeadingInt(age_counts[2].gruppa) /\ LeadingInt(age_counts[2].gruppa) = 1000

\* The bucket of a town name: the capital, a city, a settlement, then the rural
\* prefixes s., d. and st., then any other name.
TownBucket(n) ==
    CASE n = MOSKVA -> 0
      [] n # MOSKVA /\ StartsWith(n, <<"g", ".">>) -> 1
      [] StartsWith(n, <<"r", ".", "p", ".">>) \/ StartsWith(n, <<"p", ".">>)
            \/ StartsWith(n, <<"p", "o", "s", ".">>) -> 2
      [] StartsWith(n, <<"s", ".">>) -> 3
      [] StartsWith(n, <<"d", ".">>) -> 4
      [] StartsWith(n, <<"s", "t", ".">>) -> 5
      [] OTHER -> 6

\* The town rows: all rows of the town table but the total row.
TownOnly == SubSeq(towns_with_total, 1, Len(towns_with_total) - 1)

\* The towns of the records, as the claim reads them off the organisations.
TownsOfRecords ==
    {df.rows[r]["Naselyonnyj punkt"] : r \in 1..Len(df.rows)} \ {None}

\* C17: the town rows are in the order of the town key: by bucket (the capital,
\* cities, settlements, s., d., st., other names), and by the name within one
\* bucket; the order is strict, so the rows are determined by the set of towns:
\* each town of the records has exactly one row.
C17_TownOrder ==
    Done("towns") =>
        /\ \A i, j \in 1..Len(TownOnly) :
              i < j =>
                 \/ TownBucket(TownOnly[i].punkt.s) < TownBucket(TownOnly[j].punkt.s)
                 \/ /\ TownBucket(TownOnly[i].punkt.s) = TownBucket(TownOnly[j].punkt.s)
                    /\ StrLess(TownOnly[i].punkt.s, TownOnly[j].punkt.s)
        /\ {TownOnly[i].punkt : i \in 1..Len(TownOnly)} = TownsOfRecords
        /\ Len(TownOnly) = Cardinality(TownsOfRecords)

\* The capital stands before a city whose name is lexically smaller.
C17_Witness ==
    /\ Done("towns") /\ Len(TownOnly) = 2
    /\ TownOnly[1].punkt.s = MOSKVA /\ TownOnly[2].punkt.s = <<"g", ".", "A">>

\* Two villages of one bucket stand in the order of their names.
C17_WitnessSameBucket ==
    /\ Done("towns") /\ Len(TownOnly) = 2
    /\ TownOnly[1].punkt.s = <<"s", ".", "A">> /\ TownOnly[2].punkt.s = <<"s", ".", "B">>

\* A name without a prefix stands after a name with the prefix st.
C17_WitnessOther ==
    /\ Done("towns") /\ Len(TownOnly) = 2
    /\ TownOnly[1].punkt.s = <<"s", "t", ".", "D">> /\ TownOnly[2].punkt.s = <<"Z">>

(***************************************************************************)
(* A direct run of lines 271-281 on a frame that has the organisation      *)
(* column alone: args the organisation cells of the records, ret the town  *)
(* extract_town gives for each and the town table.                         *)
(***************************************************************************)
MaxTownLen == 4

TownChars == {"(", ")", ";", " ", "a"}

\* Organisation cells: every text of up to MaxTownLen characters, a number, a blank.
TownCells == {Str(s) : s \in SeqsUpTo(TownChars, MaxTownLen)} \cup {Num(5, 1), NaN}

\* The organisations of a second record.
OtherOrgs == {BaseOrg, Str(<<"(", "a", ")">>), Str(<<"Q", " ", "(", "a", ")">>), NaN}

TownFrame(orgs) ==
    AddCols([columns |-> {"Organizaciya"},
             rows |-> [i \in 1..Len(orgs) |-> [c \in {"Organizaciya"} |-> orgs[i]]]],
            {"Naselyonnyj punkt"}, TownValue)

InitTown ==
    /\ pc = "call"
    /\ fn = "towns" /\ ret = <<>>
    /\ args \in {<<a>> : a \in TownCells} \cup (TownCells \X OtherOrgs)
    /\ NoRun

CallTowns ==
    /\ pc = "call" /\ fn = "towns"
    /\ ret' = [town |-> [i \in 1..Len(args) |-> extract_town(args[i])],
               table |-> WithTotal(SortTowns(TownRows(TownFrame(args))))]
    /\ pc' = "done"
    /\ UNCHANGED <<fn, args, runvars>>

NextTown == CallTowns

SpecTown == InitTown /\ [][NextTown]_vars

(***************************************************************************)
(* Claims about extract_town, checked under SpecTown.                      *)
(***************************************************************************)
\* The name s has a parenthesised group: a "(" with a ")" somewhere after it.
HasGroup(s) == \E i, j \in 1..Len(s) : i < j /\ s[i] = "(" /\ s[j] = ")"

\* The text inside the first parenthesised group of s.
FirstGroup(s) ==
    LET i == CHOOSE k \in 1..Len(s) : s[k] = "(" /\ \A m \in 1..(k - 1) : s[m] # "("
        j == CHOOSE k \in (i + 1)..Len(s) : s[k] = ")" /\ \A m \in (i + 1)..(k - 1) : s[m] # ")"
    IN  SubSeq(s, i + 1, j - 1)

\* The text t cut before its first semicolon.
CutAtSemicolon(t) ==
    IF \E k \in 1..Len(t) : t[k] = ";"
    THEN SubSeq(t, 1, (CHOOSE k \in 1..Len(t) : t[k] = ";" /\ \A m \in 1..(k - 1) : t[m] # ";") - 1)
    ELSE t

\* The text u is the text t without the spaces at its two ends.
IsTrimOf(u, t) ==
    /\ \E a, b \in 0..Len(t) :
          /\ a + b <= Len(t) \/ (u = <<>> /\ a = Len(t))
          /\ \A k \in 1..a : t[k] = " "
          /\ \A k \in (Len(t) - b + 1)..Len(t) : t[k] = " "
          /\ a + b <= Len(t) => u = SubSeq(t, a + 1, Len(t) - b)
    /\ u = <<>> \/ (u[1] # " " /\ u[Len(u)] # " ")

\* The town the claim gives organisation cell c: none for a cell that is no text
\* or has no group.
TownDefined(c) == c.k = "str" /\ HasGroup(c.s)

C18_WitnessCut ==
    /\ pc = "done" /\ fn = "towns" /\ Len(args) = 1
    /\ args[1] = Str(<<"(", "a", ";", ")">>) /\ ret.town[1] = Str(<<"a">>)

(***************************************************************************)
(* A direct run of lines 198-204 on one row: args the row, ret the five    *)
(* labyrinth scores and their index.                                       *)
(***************************************************************************)
\* What the three cells of one labyrinth hold: a number of errors with the goal
\* reached in time, text in all three, all three blank, or no such columns.
LabCases == {"e0", "e1", "e2", "e6", "text", "blank", "absent"}

LabCaseCell(k, col) ==
    CASE k = "text" -> AB
      [] k = "blank" -> NaN
      [] col \in Range(LabTimeCol) -> Num(10, 1)
      [] col \in Range(LabReachedCol) -> DA
      [] OTHER -> Num(CASE k = "e0" -> 0 [] k = "e1" -> 1 [] k = "e2" -> 2 [] OTHER -> 6, 1)

\* The row whose labyrinth i is of case f[i]; the columns of an absent one are left out.
LabRow(f) ==
    [col \in UNION {{LabTimeCol[i], LabErrCol[i], LabReachedCol[i]} :
                       i \in {j \in 1..5 : f[j] # "absent"}} |->
        LabCaseCell(f[CHOOSE i \in 1..5 : col \in {LabTimeCol[i], LabErrCol[i],
                                                   LabReachedCol[i]}], col)]

InitRow ==
    /\ pc = "call"
    /\ fn = "labs" /\ ret = <<>>
    /\ args \in {LabRow(f) : f \in [1..5 -> LabCases]}
    /\ NoRun

CallLabs ==
    /\ pc = "call" /\ fn = "labs"
    /\ ret' = LabValues(args)
    /\ pc' = "done"
    /\ UNCHANGED <<fn, args, runvars>>

NextRow == CallLabs

SpecRow == InitRow /\ [][NextRow]_vars

(***************************************************************************)
(* Claims about the labyrinth scores of a row, checked under SpecRow.      *)
(***************************************************************************)
\* C19: whatever the cells of a row hold (numbers, text, blanks, no column), each
\* of the five labyrinth scores is one of 0, 1, 2, 3, and the analytic-synthetic
\* index is a number between 0 and 1 that is 1 only when all five scores are 3.
C19_ScoresDefined ==
    (pc = "done" /\ fn = "labs") =>
        /\ \A i \in 1..5 : ret[LabCol[i]] \in {0, 1, 2, 3}
        /\ ret["Analit-Sint"].kind = "num"
        /\ 0 <= ret["Analit-Sint"].n /\ ret["Analit-Sint"].n <= ret["Analit-Sint"].d
        /\ ret["Analit-Sint"].n = ret["Analit-Sint"].d => \A i \in 1..5 : ret[LabCol[i]] = 3
        /\ (\A i \in 1..5 : ret[LabCol[i]] = 3) => ret["Analit-Sint"] = FNum(1, 1)

\* Four scores of 3 and one of 2: the index is 0.93.
C19_Witness ==
    /\ pc = "done" /\ fn = "labs"
    /\ ret["P1"] = 2 /\ \A i \in 2..5 : ret[LabCol[i]] = 3
    /\ ret["Analit-Sint"] = FNum(93, 100)

\* A row without the columns of labyrinth 3 and with text in labyrinth 5.
C19_WitnessAbsent ==
    /\ pc = "done" /\ fn = "labs"
    /\ "I5-3Vremya" \notin DOMAIN args
    /\ "I5-5Vremya" \in DOMAIN args /\ args["I5-5Vremya"] = AB
    /\ ret["P3"] = 0 /\ ret["P5"] = 0 /\ ret["P1"] = 3

====
